---- MODULE Spec2Model ----
(***************************************************************************)
(* Model of the ytask backend core: the trigger calculator, the dispatch   *)
(* table (scheduleTask / stopTask), the execution pipeline with its retry  *)
(* policy (taskScheduler.ts) and the sandboxed runner's command validation *)
(* (class SandboxExecutor).                                                *)
(*                                                                         *)
(* Time is counted in whole seconds since 2024-01-01T00:00:00 local time   *)
(* (a Monday).  Millisecond quantities of the code (interval,              *)
(* conditionDelay, retryInterval) are carried in the same unit.            *)
(***************************************************************************)
EXTENDS Integers, Sequences, FiniteSets, TLC

\* ------------------------------------------------------------------------
\* Optional values: JavaScript null is the empty sequence, a value v is <<v>>.
\* ------------------------------------------------------------------------
Null == <<>>

Some(v) == <<v>>

IsNull(o) == o = <<>>

Val(o) == o[1]

\* ------------------------------------------------------------------------
\* Calendar arithmetic of the JavaScript Date object (local time, no DST).
\* ------------------------------------------------------------------------
IsLeap(y) == (y % 4 = 0 /\ y % 100 # 0) \/ y % 400 = 0

DaysInYear(y) == IF IsLeap(y) THEN 366 ELSE 365

\* m is a JavaScript month index, 0 = January
DaysInMonth(y, m) ==
    IF m = 1 THEN (IF IsLeap(y) THEN 29 ELSE 28)
    ELSE IF m \in {3, 5, 8, 10} THEN 30 ELSE 31

RECURSIVE DaysBeforeYear(_)
DaysBeforeYear(y) ==
    IF y <= 2024 THEN 0 ELSE DaysBeforeYear(y - 1) + DaysInYear(y - 1)

RECURSIVE DaysBeforeMonth(_, _)
DaysBeforeMonth(y, m) ==
    IF m <= 0 THEN 0 ELSE DaysBeforeMonth(y, m - 1) + DaysInMonth(y, m - 1)

\* MakeDay/MakeTime of the Date object: month and day-of-month overflow roll
\* over into the following months (month >= 0, date >= 1 in the model).
MakeTime(y, m, d, hh, mm, ss) ==
    LET yy == y + (m \div 12)
        mo == m % 12
        day == DaysBeforeYear(yy) + DaysBeforeMonth(yy, mo) + (d - 1)
    IN  day * 86400 + hh * 3600 + mm * 60 + ss

RECURSIVE YearOfDay(_, _)
YearOfDay(day, y) ==
    IF day < DaysBeforeYear(y + 1) THEN y ELSE YearOfDay(day, y + 1)

RECURSIVE MonthOfDay(_, _, _)
MonthOfDay(rest, y, m) ==
    IF rest < DaysInMonth(y, m) THEN m ELSE MonthOfDay(rest - DaysInMonth(y, m), y, m + 1)

\* The local-time fields of an instant t >= 0
Civil(t) ==
    LET day == t \div 86400
        y == YearOfDay(day, 2024)
        yday == day - DaysBeforeYear(y)
        m == MonthOfDay(yday, y, 0)
    IN  [year |-> y, month |-> m, date |-> yday - DaysBeforeMonth(y, m) + 1,
         hours |-> (t % 86400) \div 3600, minutes |-> (t % 3600) \div 60,
         seconds |-> t % 60, day |-> (day + 1) % 7]

\* Date.prototype.setHours(h, m, 0, 0)
SetHours(t, hh, mm) ==
    LET c == Civil(t) IN MakeTime(c.year, c.month, c.date, hh, mm, 0)

\* a setDate that leaves the date as it is
SetDateKeeps(t, d) == t

\* Date.prototype.setDate(d)
SetDate(t, d) ==
    LET c == Civil(t) IN MakeTime(c.year, c.month, d, c.hours, c.minutes, c.seconds)

\* Date.prototype.setMonth(m)
SetMonth(t, m) ==
    LET c == Civil(t) IN MakeTime(c.year, m, c.date, c.hours, c.minutes, c.seconds)

\* Date.prototype.setFullYear(y)
SetFullYear(t, y) ==
    LET c == Civil(t) IN MakeTime(y, c.month, c.date, c.hours, c.minutes, c.seconds)

\* ------------------------------------------------------------------------
\* JavaScript value helpers.  A configuration object is a record holding only
\* the fields that are present; an absent field reads as undefined.
\* ------------------------------------------------------------------------
Has(cfg, f) == f \in DOMAIN cfg

\* truthiness of a numeric field: present and not 0
NumTruthy(cfg, f) == Has(cfg, f) /\ cfg[f] # 0

\* the idiom  cfg.f || d  for a numeric field
OrDefault(cfg, f, d) == IF NumTruthy(cfg, f) THEN cfg[f] ELSE d

\* an interval of more milliseconds than a Date can hold (above 8.64e15)
BeyondDate == 0 - 3

\* the delay setInterval / setTimeout use: a delay above 2^31 - 1 ms
\* (2147483 s, a little under 25 days) is set to 1 ms, the next tick of the
\* clock
TimerDelay(d) == IF d = BeyondDate \/ d > 2147483 THEN 1 ELSE d

\* Number(...) of a string that is not a numeral
NaN == 0 - 1

Digits == <<"0", "1", "2", "3", "4", "5", "6", "7", "8", "9">>

IsDigit(c) == \E i \in 1..10 : Digits[i] = c

DigitVal(c) == (CHOOSE i \in 1..10 : Digits[i] = c) - 1

\* Number(s) for a string s given as a sequence of characters:
\* "" is 0, a decimal numeral is its value, anything else is NaN
RECURSIVE NumberOf(_)
NumberOf(s) ==
    IF s = <<>> THEN 0
    ELSE LET c == s[Len(s)]
             hi == NumberOf(SubSeq(s, 1, Len(s) - 1))
         IN  IF hi = NaN \/ ~IsDigit(c) THEN NaN ELSE hi * 10 + DigitVal(c)

\* String.prototype.split(sep) for a one-character separator
RECURSIVE SplitOn(_, _)
SplitOn(s, sep) ==
    IF \A i \in 1..Len(s) : s[i] # sep THEN <<s>>
    ELSE LET k == CHOOSE i \in 1..Len(s) : s[i] = sep /\ \A j \in 1..(i - 1) : s[j] # sep
         IN  <<SubSeq(s, 1, k - 1)>> \o SplitOn(SubSeq(s, k + 1, Len(s)), sep)

\* const [hours, minutes] = visualTime.split(':').map(Number)
\* (a missing second element is undefined, which setHours turns into NaN)
ParseVisualTime(vt) ==
    LET parts == SplitOn(vt, ":")
    IN  [hours |-> NumberOf(parts[1]),
         minutes |-> IF Len(parts) >= 2 THEN NumberOf(parts[2]) ELSE NaN]

InvalidTime(hm) == hm.hours = NaN \/ hm.minutes = NaN

MinOf(S) == CHOOSE v \in S : \A w \in S : v <= w

\* ------------------------------------------------------------------------
\* Trigger calculator
\* ------------------------------------------------------------------------

\* cron-parser's next(): the first occurrence strictly after now, for the two
\* expressions of the model: "* * * * *" and "M H * * *" (daily at H:M)
CronNext(expr, now) ==
    IF expr.every = "minute" THEN ((now \div 60) + 1) * 60
    ELSE LET today == SetHours(now, expr.hour, expr.minute)
         IN  IF today > now THEN today ELSE today + 86400

\* calculateNextExecutionTime.  The cron branch calls require('cron-parser'):
\* in a build that runs the file as an ES module require is not defined, the
\* ReferenceError is caught and the function returns null
calculateNextExecutionTime(task, now, requireDefined) ==
    LET cfg == task.triggerConfig
    IN  IF task.triggerType = "cron" /\ Has(cfg, "cron")
          THEN (IF requireDefined THEN Some(CronNext(cfg.cron, now)) ELSE Null)
        ELSE IF task.triggerType = "interval" /\ NumTruthy(cfg, "interval")
          THEN Some(now + cfg.interval)
        ELSE IF task.triggerType = "date" /\ Has(cfg, "date")
          THEN (IF cfg.date > now THEN Some(cfg.date) ELSE Null)
        ELSE Null

\* calculateVisualScheduleTime; an Invalid Date makes toISOString throw a
\* RangeError, which the function catches and turns into null
calculateVisualScheduleTime(task, now) ==
    LET cfg == task.triggerConfig
        vt == IF Has(cfg, "visualTime") THEN ParseVisualTime(cfg.visualTime)
              ELSE [hours |-> NaN, minutes |-> NaN]
        c == Civil(now)
    IN  IF ~Has(cfg, "visualType") THEN Null
        ELSE IF cfg.visualType = "once" THEN
          IF ~Has(cfg, "visualTime") \/ InvalidTime(vt) THEN Null
          ELSE LET t0 == SetHours(now, vt.hours, vt.minutes)
               IN  Some(IF t0 <= now THEN SetDate(t0, Civil(t0).date + 1) ELSE t0)
        ELSE IF cfg.visualType = "minute" THEN
          Some(now + OrDefault(cfg, "visualValue", 1) * 60)
        ELSE IF cfg.visualType = "hour" THEN
          Some(now + OrDefault(cfg, "visualValue", 1) * 3600)
        ELSE IF cfg.visualType = "day" THEN
          IF ~Has(cfg, "visualTime") \/ InvalidTime(vt) THEN Null
          ELSE LET days == OrDefault(cfg, "visualValue", 1)
                   t0 == SetHours(SetDate(now, c.date + days), vt.hours, vt.minutes)
               IN  Some(IF t0 <= now THEN SetDate(t0, Civil(t0).date + days) ELSE t0)
        ELSE IF cfg.visualType = "week" THEN
          IF ~(Has(cfg, "visualTime") /\ Has(cfg, "visualDays") /\ cfg.visualDays # {}) THEN Null
          ELSE LET later == {d \in cfg.visualDays : d > c.day}
               IN  \* Math.min() of no arguments is Infinity: setDate(NaN) gives an
                   \* Invalid Date and toISOString throws
                   IF later = {} \/ InvalidTime(vt) THEN Null
                   ELSE LET nextDay == MinOf(later)
                            t0 == IF nextDay > c.day
                                    THEN SetDate(now, c.date + (nextDay - c.day))
                                    ELSE SetDate(now, c.date + (7 - c.day + nextDay))
                        IN  Some(SetHours(t0, vt.hours, vt.minutes))
        ELSE IF cfg.visualType = "month" THEN
          IF ~(Has(cfg, "visualTime") /\ NumTruthy(cfg, "visualDate")) \/ InvalidTime(vt) THEN Null
          ELSE LET t0 == SetMonth(now, c.month + 1)
                   t1 == SetHours(SetDate(t0, cfg.visualDate), vt.hours, vt.minutes)
               IN  Some(IF t1 <= now THEN SetMonth(t1, Civil(t1).month + 1) ELSE t1)
        ELSE Null

\* calculateLunarScheduleTime without its guard on the three lunar fields
calculateLunarUnguarded(task, now) ==
    LET cfg == task.triggerConfig
        t0 == MakeTime(Civil(now).year, OrDefault(cfg, "lunarMonth", 1) - 1,
                       OrDefault(cfg, "lunarDay", 1), 0, 0, 0)
    IN  Some(IF t0 <= now THEN SetFullYear(t0, Civil(t0).year + 1) ELSE t0)

\* calculateLunarScheduleTime
calculateLunarScheduleTime(task, now) ==
    LET cfg == task.triggerConfig
    IN  IF ~NumTruthy(cfg, "lunarYear") \/ ~NumTruthy(cfg, "lunarMonth") \/ ~NumTruthy(cfg, "lunarDay")
          THEN Null
        ELSE LET t0 == MakeTime(Civil(now).year, cfg.lunarMonth - 1, cfg.lunarDay, 0, 0, 0)
             IN  Some(IF t0 <= now THEN SetFullYear(t0, Civil(t0).year + 1) ELSE t0)

\* calculateConditionalScheduleTime
calculateConditionalScheduleTime(task, now) ==
    LET cfg == task.triggerConfig
    IN  IF Has(cfg, "conditionType") /\ cfg.conditionType \in {"system_startup", "system_resume"}
          THEN Some(now + OrDefault(cfg, "conditionDelay", 0))
        ELSE Null

\* ------------------------------------------------------------------------
\* Tasks handed to the scheduler by the CRUD layer
\* ------------------------------------------------------------------------
TaskIds == {"t1", "t2"}

\* the instant the process starts at: 2024-01-31T10:00:00
StartTime == MakeTime(2024, 0, 31, 10, 0, 0)

Chars(hh, mm) == <<Digits[(hh \div 10) + 1], Digits[(hh % 10) + 1], ":",
                   Digits[(mm \div 10) + 1], Digits[(mm % 10) + 1]>>

MkTask(id, tt, cfg, retries) ==
    [id |-> id, type |-> "http", config |-> [url |-> "api"],
     triggerType |-> tt, triggerConfig |-> cfg,
     maxRetries |-> retries, retryInterval |-> 5]

\* the Task objects callers pass to scheduleTask in the runs of Spec
DispatchCatalog ==
    { MkTask("t1", "cron", [cron |-> [every |-> "minute"]], 1),
      MkTask("t1", "interval", [interval |-> 60], 1),
      MkTask("t1", "visual", [visualType |-> "minute", visualValue |-> 1], 1) }

\* recurring visual tasks, in the runs of SpecRecurring: every minute, and
\* every Friday at 09:00 (the process starts on a Wednesday)
RecurringCatalog ==
    { MkTask("t1", "visual", [visualType |-> "minute", visualValue |-> 1], 0),
      MkTask("t1", "visual", [visualType |-> "week", visualDays |-> {5},
                              visualTime |-> Chars(9, 0)], 0) }

\* date triggers a minute ago, now, in a minute and in thirty days, in the
\* runs of SpecDate
DateCatalog ==
    {MkTask("t1", "date", [date |-> StartTime + d], 0) : d \in {0 - 60, 0, 60, 30 * 86400}}

\* lunar and countdown triggers, in the runs of SpecCalendar: the tenth of
\* the second month (ten days after the start) with and without
\* lunarRepeat, the first of the twelfth month, and countdowns that end in
\* a minute, in an hour, a minute and thirty seconds, now, and in thirty days
CalendarCatalog ==
    {MkTask("t1", "lunar", [lunarYear |-> 2024, lunarMonth |-> 2, lunarDay |-> 10,
                            lunarRepeat |-> r], 0) : r \in BOOLEAN}
    \cup {MkTask("t1", "lunar", [lunarYear |-> 2024, lunarMonth |-> 12, lunarDay |-> 1,
                                 lunarRepeat |-> FALSE], 0)}
    \cup {MkTask("t2", "countdown", c, 0) :
              c \in {[countdownStartTime |-> StartTime, countdownMinutes |-> 1],
                     [countdownStartTime |-> StartTime, countdownHours |-> 1,
                      countdownMinutes |-> 1, countdownSeconds |-> 30],
                     [countdownStartTime |-> StartTime - 3600, countdownHours |-> 1],
                     [countdownStartTime |-> StartTime, countdownHours |-> 720]}}

\* in the runs of SpecPipeline
PipelineCatalog ==
    { MkTask("t1", "interval", [interval |-> 60], 1),
      MkTask("t2", "date", [date |-> StartTime + 60], 0) }

\* one task of each kind that executeTaskLogic tells apart, with complete
\* and incomplete configs, in the runs of SpecKinds
KindsCatalog ==
    LET OfKind(type, cfg) ==
            [MkTask("t1", "date", [date |-> StartTime + 60], 0)
                EXCEPT !.type = type, !.config = cfg]
    IN  { OfKind("http", [url |-> "anywhere"]),
          OfKind("http", [method |-> "GET"]),
          OfKind("command", [command |-> <<"l", "s">>]),
          OfKind("command", [command |-> <<"d", "d">>]),
          OfKind("command", [cwd |-> "none"]),
          OfKind("script", [script |-> <<"x">>]),
          OfKind("script", [language |-> "python"]),
          OfKind("email", [to |-> "nobody"]) }

\* whether the trigger configuration lacks a field its trigger kind needs
\* (TriggerConfig declares every field optional), or the kind is not one of
\* the seven kinds
Incomplete(task) ==
    LET cfg == task.triggerConfig
        tt == task.triggerType
        lacks(fields) == \E f \in fields : ~Has(cfg, f)
    IN  CASE tt = "cron" -> lacks({"cron"})
          [] tt = "interval" -> lacks({"interval"})
          [] tt = "date" -> lacks({"date"})
          [] tt = "visual" ->
               \/ lacks({"visualType"})
               \/ cfg.visualType \in {"once", "day"} /\ lacks({"visualTime"})
               \/ cfg.visualType = "week" /\ lacks({"visualTime", "visualDays"})
               \/ cfg.visualType = "month" /\ lacks({"visualTime", "visualDate"})
          [] tt = "lunar" -> lacks({"lunarYear", "lunarMonth", "lunarDay"})
          [] tt = "countdown" -> lacks({"countdownStartTime"})
          [] tt = "conditional" -> lacks({"conditionType"})
          [] OTHER -> TRUE

\* task t1 with incomplete trigger configurations of every kind and of a
\* kind that does not exist, task t2 with complete ones, in the runs of
\* SpecIncomplete
IncompleteCatalog ==
    { MkTask("t1", "cron", [timezone |-> "UTC"], 0),
      MkTask("t1", "interval", [unit |-> "s"], 0),
      MkTask("t1", "date", [cron |-> [every |-> "minute"]], 0),
      MkTask("t1", "visual", [visualType |-> "once"], 0),
      MkTask("t1", "visual", [visualType |-> "month", visualTime |-> Chars(11, 0)], 0),
      MkTask("t1", "lunar", [lunarDay |-> 15], 0),
      MkTask("t1", "countdown", [countdownMinutes |-> 5], 0),
      MkTask("t1", "conditional", [conditionDelay |-> 5], 0),
      MkTask("t1", "weekly", [interval |-> 60], 0),
      MkTask("t2", "date", [date |-> StartTime + 60], 0) }

\* the tasks of the runs of SpecPreview, also sent as preview requests
PreviewCatalog ==
    LET OfKind(type, cfg) ==
            [MkTask("t1", "date", [date |-> StartTime + 60], 0)
                EXCEPT !.type = type, !.config = cfg]
    IN  { OfKind("http", [url |-> "api"]),
          OfKind("command", [command |-> <<"d", "d">>]) }

\* JSON.stringify(v): a string, which has none of the fields of v
JSONStringify(v) == [text |-> v]

\* JSON.parse of such a string
JSONParse(s) == s.text

\* the row POST /api/tasks inserts for a task (config and trigger_config go
\* in as JSON text), with the status a later update has left it in
TaskRow(task, status) ==
    [id |-> task.id, type |-> task.type, config |-> JSONStringify(task.config),
     trigger_type |-> task.triggerType,
     trigger_config |-> JSONStringify(task.triggerConfig),
     status |-> status, max_retries |-> task.maxRetries,
     retry_interval |-> task.retryInterval]

\* the task object initialize() gets for a row: the SELECT renames the
\* columns and hands over the column values as they are
LoadedTask(row) ==
    [id |-> row.id, type |-> row.type, config |-> row.config,
     triggerType |-> row.trigger_type, triggerConfig |-> row.trigger_config,
     maxRetries |-> row.max_retries, retryInterval |-> row.retry_interval]

\* the task the CRUD layer stored in the row
StoredTask(row) ==
    [LoadedTask(row) EXCEPT !.config = JSONParse(@), !.triggerConfig = JSONParse(@)]

\* the tasks created before the process started, in the runs of SpecStartup
StartupCatalog ==
    { MkTask("t1", "interval", [interval |-> 60], 0),
      MkTask("t1", "date", [date |-> StartTime + 60], 0),
      MkTask("t2", "date", [date |-> StartTime + 120], 0) }

Statuses == {"active", "paused", "completed"}

\* two tasks side by side, in the runs of SpecPair
PairCatalog ==
    { MkTask("t1", "interval", [interval |-> 60], 1),
      MkTask("t2", "date", [date |-> StartTime + 90], 0) }

\* tasks on interval triggers, one with an interval beyond the Date range,
\* in the runs of SpecReturn
ReturnCatalog ==
    { MkTask("t1", "interval", [interval |-> BeyondDate], 0),
      MkTask("t1", "interval", [interval |-> 60], 0),
      MkTask("t2", "date", [date |-> StartTime + 60], 0),
      MkTask("t2", "date", [date |-> StartTime - 60], 0) }

\* and in the runs of SpecTable
TableCatalog ==
    { MkTask("t1", "cron", [cron |-> [every |-> "minute"]], 1),
      MkTask("t1", "date", [date |-> StartTime + 60], 0),
      MkTask("t1", "date", [date |-> StartTime - 60], 0),
      MkTask("t1", "conditional", [conditionType |-> "system_startup"], 0),
      MkTask("t2", "interval", [interval |-> 60], 0) }

\* ------------------------------------------------------------------------
\* Dispatch table.  A dispatch state D is the record
\*   [scheduledTasks, runningTasks, handles, dbNext]
\* scheduledTasks / runningTasks map a task id to a handle (0: no entry);
\* handles[h] is the timer object h; dbNext is tasks.next_execution_time.
\* ------------------------------------------------------------------------
NoHandle == 0

\* the bounds and task objects of the run and the kind of build:
\* [calls, fires, execs, catalog, requireDefined]
VARIABLE budget

\* Timer objects that are neither armed nor referenced by a map are garbage:
\* they are dropped from handles, and their identity may be used again.
Collect(D) ==
    LET keep == {h \in DOMAIN D.handles :
                    \/ D.handles[h].live
                    \/ \E id \in TaskIds : h \in {D.scheduledTasks[id], D.runningTasks[id]}}
    IN  [D EXCEPT !.handles = [h \in keep |-> D.handles[h]]]

\* the identity of a new timer object
FreshHandle(hs) == MinOf((1..(Cardinality(DOMAIN hs) + 1)) \ DOMAIN hs)

\* handles with the new timer object t
WithTimer(hs, t) ==
    LET n == FreshHandle(hs)
    IN  [h \in DOMAIN hs \cup {n} |-> IF h = n THEN t ELSE hs[h]]

\* cronTask.stop() / clearTimeout(h)
Cancel(hs, h) == [hs EXCEPT ![h].live = FALSE]

\* a stop that cancels the timers and keeps their map entries
StopSyncKeepsEntries(D, id) ==
    LET c == D.scheduledTasks[id]
        t == D.runningTasks[id]
        h1 == IF c # NoHandle THEN Cancel(D.handles, c) ELSE D.handles
        h2 == IF t # NoHandle THEN Cancel(h1, t) ELSE h1
    IN  Collect([D EXCEPT !.handles = h2])

\* a stopTask that deletes the map entries and leaves the timers running
StopSyncForgets(D, id) ==
    [D EXCEPT !.scheduledTasks[id] = NoHandle, !.runningTasks[id] = NoHandle]

\* stopTask up to its await: stop and delete the cron job, clear and delete
\* the interval/timeout
StopSync(D, id) ==
    LET c == D.scheduledTasks[id]
        t == D.runningTasks[id]
        h1 == IF c # NoHandle THEN Cancel(D.handles, c) ELSE D.handles
        h2 == IF t # NoHandle THEN Cancel(h1, t) ELSE h1
    IN  Collect([D EXCEPT !.handles = h2,
                          !.scheduledTasks[id] = NoHandle,
                          !.runningTasks[id] = NoHandle])

\* an UPDATE without its WHERE id = ? clause
StopDbEveryTask(D, id) == [D EXCEPT !.dbNext = [i \in TaskIds |-> Null]]

\* stopTask after its await: UPDATE tasks SET next_execution_time = NULL
StopDb(D, id) == [D EXCEPT !.dbNext[id] = Null]

\* whether the timeout callback of the visual / lunar branch calls
\* scheduleTask(task) again after executeTask(task)
Reschedules(task) ==
    \/ /\ task.triggerType = "visual"
       /\ Has(task.triggerConfig, "visualType")
       /\ task.triggerConfig.visualType # "once"
    \/ /\ task.triggerType = "lunar"
       /\ Has(task.triggerConfig, "lunarRepeat")
       /\ task.triggerConfig.lunarRepeat

\* whether scheduleTask throws after arming: in the interval branch,
\* new Date(Date.now() + interval).toISOString() throws a RangeError when the
\* sum is outside the Date range
ArmThrows(task, now) ==
    /\ task.triggerType = "interval"
    /\ NumTruthy(task.triggerConfig, "interval")
    /\ task.triggerConfig.interval = BeyondDate

\* The branch of scheduleTask taken for a task at time now: the computed
\* nextExecutionTime and the timer it arms: kind "cron" goes to scheduledTasks,
\* "interval" and "timeout" to runningTasks, "none" arms nothing.
ArmPlan(task, now) ==
    LET cfg == task.triggerConfig
        tt == task.triggerType
        none == [kind |-> "none", due |-> 0]
        timeout(next) ==
            IF ~IsNull(next) /\ Val(next) - now > 0
              THEN [next |-> next,
                    arm |-> [kind |-> "timeout", due |-> now + TimerDelay(Val(next) - now)]]
              ELSE [next |-> next, arm |-> none]
    IN  IF tt = "cron" /\ Has(cfg, "cron") THEN
          [next |-> calculateNextExecutionTime(task, now, budget.requireDefined),
           arm |-> [kind |-> "cron", due |-> CronNext(cfg.cron, now)]]
        ELSE IF tt = "interval" /\ NumTruthy(cfg, "interval") THEN
          [next |-> IF cfg.interval = BeyondDate THEN Null ELSE Some(now + cfg.interval),
           arm |-> [kind |-> "interval", due |-> now + TimerDelay(cfg.interval)]]
        ELSE IF tt = "date" /\ Has(cfg, "date") THEN
          IF cfg.date > now
            THEN [next |-> Some(cfg.date),
                  arm |-> [kind |-> "timeout", due |-> now + TimerDelay(cfg.date - now)]]
            ELSE [next |-> Null, arm |-> none]
        ELSE IF tt = "visual" /\ Has(cfg, "visualType") THEN
          timeout(calculateVisualScheduleTime(task, now))
        ELSE IF tt = "lunar" /\ NumTruthy(cfg, "lunarDay") THEN
          timeout(calculateLunarScheduleTime(task, now))
        ELSE IF tt = "countdown" /\ Has(cfg, "countdownStartTime") THEN
          LET target == cfg.countdownStartTime
                          + OrDefault(cfg, "countdownHours", 0) * 3600
                          + OrDefault(cfg, "countdownMinutes", 0) * 60
                          + OrDefault(cfg, "countdownSeconds", 0)
          IN  IF target > now
                THEN [next |-> Some(target),
                      arm |-> [kind |-> "timeout", due |-> now + TimerDelay(target - now)]]
                ELSE [next |-> Null, arm |-> none]
        ELSE IF tt = "conditional" THEN
          [next |-> calculateConditionalScheduleTime(task, now), arm |-> none]
        ELSE [next |-> Null, arm |-> none]

\* the nextExecutionTime scheduleTask computes for a task at time now
NextFireTime(task, now) == ArmPlan(task, now).next

\* scheduleTask between its two awaits: create the timer and record it in the
\* map of its kind; last tells whether the arming call is the scheduleTask /
\* stopTask call made last for the task
Arm(D, task, now, last) ==
    LET plan == ArmPlan(task, now)
        h == FreshHandle(D.handles)
        timer == [task |-> task, kind |-> plan.arm.kind, due |-> plan.arm.due,
                  live |-> TRUE, last |-> last, chain |-> 0]
    IN  IF plan.arm.kind = "none" THEN D
        ELSE IF plan.arm.kind = "cron"
          THEN Collect([D EXCEPT !.handles = WithTimer(@, timer), !.scheduledTasks[task.id] = h])
          ELSE Collect([D EXCEPT !.handles = WithTimer(@, timer), !.runningTasks[task.id] = h])

\* scheduleTask after its second await: UPDATE tasks SET next_execution_time
Persist(D, id, next) == [D EXCEPT !.dbNext[id] = next]

\* a whole stopTask(id) call that no other call overlaps
StopTaskSeq(D, id) == StopDb(StopSync(D, id), id)

\* a scheduleTask that arms without stopping first
ScheduleTaskNoStop(D, task, now) ==
    LET armed == Arm(D, task, now, TRUE)
        next == NextFireTime(task, now)
    IN  IF IsNull(next) THEN armed ELSE Persist(armed, task.id, next)

\* k stopTask(id) calls in a row
RECURSIVE StopTimes(_, _, _)
StopTimes(D, id, k) == IF k = 0 THEN D ELSE StopTimes(StopTaskSeq(D, id), id, k - 1)

\* a whole scheduleTask(task) call that no other call overlaps
ScheduleTaskSeq(D, task, now) ==
    LET armed == Arm(StopTaskSeq(D, task.id), task, now, TRUE)
        next == NextFireTime(task, now)
    IN  IF IsNull(next) THEN armed ELSE Persist(armed, task.id, next)

\* ------------------------------------------------------------------------
\* SandboxExecutor: command validation and executeCommand.  A string is the
\* sequence of its characters.
\* ------------------------------------------------------------------------

UpperCase ==
    <<"A", "B", "C", "D", "E", "F", "G", "H", "I", "J", "K", "L", "M",
     "N", "O", "P", "Q", "R", "S", "T", "U", "V", "W", "X", "Y", "Z">>

LowerCase ==
    <<"a", "b", "c", "d", "e", "f", "g", "h", "i", "j", "k", "l", "m",
     "n", "o", "p", "q", "r", "s", "t", "u", "v", "w", "x", "y", "z">>

\* String.prototype.toLowerCase
LowerChar(c) ==
    IF \E i \in 1..Len(UpperCase) : UpperCase[i] = c
      THEN LowerCase[CHOOSE i \in 1..Len(UpperCase) : UpperCase[i] = c]
      ELSE c

ToLowerCase(s) == [i \in 1..Len(s) |-> LowerChar(s[i])]

\* the white space String.prototype.trim removes (space, tab, line feed)
WhiteSpace == {" ", "\t", "\n"}

\* String.prototype.trim
Trim(s) ==
    LET inner == {i \in 1..Len(s) : s[i] \notin WhiteSpace}
    IN  IF inner = {} THEN <<>>
        ELSE SubSeq(s, MinOf(inner), CHOOSE i \in inner : \A j \in inner : j <= i)

\* String.prototype.includes
Includes(s, sub) ==
    \E i \in 0..(Len(s) - Len(sub)) : SubSeq(s, i + 1, i + Len(sub)) = sub

\* defaultConfig.allowedCommands
allowedCommands ==
    {<<"e", "c", "h", "o">>, <<"l", "s">>, <<"c", "a", "t">>,
     <<"m", "k", "d", "i", "r">>, <<"r", "m">>, <<"c", "p">>, <<"m", "v">>,
     <<"d", "a", "t", "e">>, <<"p", "w", "d">>, <<"w", "h", "o", "a", "m", "i">>,
     <<"u", "n", "a", "m", "e">>, <<"h", "o", "s", "t", "n", "a", "m", "e">>,
     <<"p", "y", "t", "h", "o", "n">>, <<"p", "y", "t", "h", "o", "n", "3">>,
     <<"n", "o", "d", "e">>, <<"n", "p", "m">>, <<"y", "a", "r", "n">>}

\* defaultConfig.disallowedCommands, in the order of the array
disallowedCommands ==
    <<<<"r", "m", " ", "-", "r", "f">>, <<"s", "u", "d", "o">>, <<"s", "u">>,
      <<"p", "a", "s", "s", "w", "d">>, <<"c", "h", "m", "o", "d">>,
      <<"c", "h", "o", "w", "n">>, <<"d", "d">>, <<"m", "k", "f", "s">>,
      <<"f", "d", "i", "s", "k">>, <<"m", "o", "u", "n", "t">>,
      <<"u", "m", "o", "u", "n", "t">>, <<"s", "h", "u", "t", "d", "o", "w", "n">>,
      <<"r", "e", "b", "o", "o", "t">>, <<"h", "a", "l", "t">>,
      <<"p", "o", "w", "e", "r", "o", "f", "f">>, <<"w", "g", "e", "t">>,
      <<"c", "u", "r", "l">>, <<"s", "s", "h">>, <<"s", "c", "p">>,
      <<"t", "e", "l", "n", "e", "t">>>>

\* the grave accent character
Backtick == "backtick"

\* the dangerousChars array of validateCommand
dangerousChars == <<Backtick, "$", "&", "|", ";", ">", "<", "~">>

\* the longest command validateCommand lets through
MaxCommandLength == 1000

\* the first element of the array list that the string s includes: the
\* element the for ... of loop returns at
FirstIncluded(list, s) ==
    list[CHOOSE i \in 1..Len(list) :
            Includes(s, list[i]) /\ \A j \in 1..(i - 1) : ~Includes(s, list[j])]

\* the characters of an array of one-character strings, as strings
AsStrings(chars) == [i \in 1..Len(chars) |-> <<chars[i]>>]

\* a validation that looks at the first word alone
validateCommandFirstWordOnly(command) ==
    LET trimmedCommand == Trim(command)
        firstWord == ToLowerCase(SplitOn(trimmedCommand, " ")[1])
    IN  IF trimmedCommand = <<>> THEN [safe |-> FALSE, reason |-> <<"empty">>]
        ELSE IF firstWord \notin allowedCommands
          THEN [safe |-> FALSE, reason |-> <<"not allowed", firstWord>>]
        ELSE [safe |-> TRUE, reason |-> <<>>]

\* a validation without the allowlist of first words
validateCommandDenylistOnly(command) ==
    LET trimmedCommand == Trim(command)
        lower == ToLowerCase(trimmedCommand)
        dangerous == AsStrings(dangerousChars)
    IN  IF trimmedCommand = <<>> THEN [safe |-> FALSE, reason |-> <<"empty">>]
        ELSE IF Len(trimmedCommand) > MaxCommandLength
          THEN [safe |-> FALSE, reason |-> <<"too long">>]
        ELSE IF \E i \in 1..Len(disallowedCommands) : Includes(lower, disallowedCommands[i])
          THEN [safe |-> FALSE,
                reason |-> <<"disallowed", FirstIncluded(disallowedCommands, lower)>>]
        ELSE IF \E i \in 1..Len(dangerous) : Includes(trimmedCommand, dangerous[i])
          THEN [safe |-> FALSE,
                reason |-> <<"dangerous", FirstIncluded(dangerous, trimmedCommand)[1]>>]
        ELSE [safe |-> TRUE, reason |-> <<>>]

\* validateCommand: the reason is the kind of the message and the keyword,
\* word or character the message names
validateCommand(command) ==
    LET trimmedCommand == Trim(command)
        firstWord == ToLowerCase(SplitOn(trimmedCommand, " ")[1])
        lower == ToLowerCase(trimmedCommand)
        dangerous == AsStrings(dangerousChars)
    IN  IF trimmedCommand = <<>> THEN [safe |-> FALSE, reason |-> <<"empty">>]
        ELSE IF Len(trimmedCommand) > MaxCommandLength
          THEN [safe |-> FALSE, reason |-> <<"too long">>]
        ELSE IF \E i \in 1..Len(disallowedCommands) : Includes(lower, disallowedCommands[i])
          THEN [safe |-> FALSE,
                reason |-> <<"disallowed", FirstIncluded(disallowedCommands, lower)>>]
        ELSE IF firstWord \notin allowedCommands
          THEN [safe |-> FALSE, reason |-> <<"not allowed", firstWord>>]
        ELSE IF \E i \in 1..Len(dangerous) : Includes(trimmedCommand, dangerous[i])
          THEN [safe |-> FALSE,
                reason |-> <<"dangerous", FirstIncluded(dangerous, trimmedCommand)[1]>>]
        ELSE [safe |-> TRUE, reason |-> <<>>]

\* the ExecutionResult of a command that validation turned down
RejectedResult(reason) == [success |-> FALSE, stdout |-> <<>>, stderr |-> reason]

\* the ExecutionResult after the child's close event with exit code code
\* (Null: the child ended by a signal): exitCode is code || 0; killed tells
\* whether the timeout callback ran and appended its note to stderr
ClosedResult(code, killed) ==
    LET exitCode == IF IsNull(code) THEN 0 ELSE Val(code)
    IN  [success |-> exitCode = 0, stdout |-> <<>>,
         stderr |-> IF killed THEN <<"timeout">> ELSE <<>>, code |-> exitCode]

\* the ways a spawned child ends: by itself with code 0 or 1, before or
\* after the timeout callback ran, or by the signal of the timeout's kill()
ChildFates ==
    {[code |-> Some(c), killed |-> k] : c \in {0, 1}, k \in BOOLEAN}
        \cup {[code |-> Null, killed |-> TRUE]}

\* what executeCommand(command, ...) resolves to when the child, if one is
\* spawned, ends as fate says
executeCommandUnvalidated(command, fate) == ClosedResult(fate.code, fate.killed)

executeCommandResult(command, fate) ==
    LET validation == validateCommand(command)
    IN  IF ~validation.safe THEN RejectedResult(validation.reason)
        ELSE ClosedResult(fate.code, fate.killed)

\* ------------------------------------------------------------------------
\* Execution pipeline helpers
\* ------------------------------------------------------------------------

\* the answers fetch(config.url) can get: the endpoint "api" is up and
\* speaks JSON, and answers 200 or 500; any other endpoint may also be
\* unreachable or answer with a body that is not JSON
Responses(cfg) ==
    IF Has(cfg, "url") /\ cfg.url = "api" THEN {"ok", "error status"}
    ELSE {"ok", "error status", "network error", "not json"}

\* what the outside world answers to one dispatch of a task: the HTTP
\* response, the fate of the command's child, the result of executeScript
Worlds(task) ==
    IF task.type = "http"
      THEN {[response |-> r] : r \in Responses(task.config)}
    ELSE IF task.type = "command" THEN {[fate |-> f] : f \in ChildFates}
    ELSE IF task.type = "script"
      THEN {[scriptResult |-> ClosedResult(f.code, f.killed)] : f \in ChildFates}
           \cup {[scriptResult |-> RejectedResult(<<"script rejected">>)]}
    ELSE {[response |-> "none"]}

\* task.config.language || 'javascript'
OrJavascript(cfg) == IF Has(cfg, "language") THEN cfg.language ELSE "javascript"

\* result.stderr || '未知错误'
StderrOrUnknown(result) == IF result.stderr = <<>> THEN <<"unknown">> ELSE result.stderr

\* executeTaskLogic(task) in the world w: it returns a value (ok) or throws
\* an Error with a message (error)
executeTaskLogic(task, w) ==
    LET cfg == task.config
        thrown(msg) == [ok |-> FALSE, error |-> msg, result |-> Null]
        returned(v) == [ok |-> TRUE, error |-> Null, result |-> v]
    IN  IF task.type = "http" THEN
          IF ~Has(cfg, "url") \/ w.response = "network error"
            THEN thrown(<<"fetch failed">>)
          ELSE IF w.response = "error status" THEN thrown(<<"HTTP", 500>>)
          ELSE IF w.response = "not json" THEN thrown(<<"Unexpected token">>)
          ELSE returned(<<"json">>)
        ELSE IF task.type = "command" THEN
          IF ~Has(cfg, "command") \/ cfg.command = <<>>
            THEN thrown(<<"invalid command config">>)
          ELSE LET result == executeCommandResult(cfg.command, w.fate)
               IN  IF ~result.success
                     THEN thrown(<<"command failed">> \o StderrOrUnknown(result))
                     ELSE returned([stdout |-> result.stdout, stderr |-> result.stderr,
                                    code |-> result.code])
        ELSE IF task.type = "script" THEN
          IF ~Has(cfg, "script") \/ cfg.script = <<>>
            THEN thrown(<<"invalid script config">>)
          ELSE LET scriptResult == w.scriptResult
               IN  IF ~scriptResult.success
                     THEN thrown(<<"script failed">> \o StderrOrUnknown(scriptResult))
                     ELSE returned([stdout |-> scriptResult.stdout,
                                    stderr |-> scriptResult.stderr,
                                    code |-> scriptResult.code,
                                    language |-> OrJavascript(cfg)])
        ELSE thrown(<<"unsupported task type", task.type>>)

\* log.retryCount of a row returned by SELECT * FROM execution_logs: the row
\* object carries the column retry_count, so the property retryCount is
\* undefined
Undefined == 0 - 2

\* the value of the column retry_count
RetryCountMapped(row) == row.retry_count

RetryCountOf(row) == Undefined

\* the JavaScript comparison a < b of two numbers or undefined
JsLess(a, b) == a # Undefined /\ b # Undefined /\ a < b

\* handleRetry's test  log && log.retryCount < task.maxRetries
ShouldRetry(row, task) == JsLess(RetryCountOf(row), task.maxRetries)

\* ------------------------------------------------------------------------
\* Bounds of the model
\* ------------------------------------------------------------------------
\* Spec: scheduleTask / stopTask calls made by the CRUD layer
MaxCalls == 2

\* Spec: timer fires (executeTask invocations started)
MaxFires == 2

\* Spec: executeTask invocations that run on past their first await (the
\* later ones stay suspended at it)
MaxExecs == 1

\* the same for SpecPipeline
PipelineCalls == 1

PipelineFires == 2

PipelineExecs == 2

\* the same for SpecTable
TableCalls == 1

TableFires == 1

TableExecs == 1

\* stopTask calls made in a row before a scheduleTask
MaxStops == 2

\* SpecReturn: calls, fires and executions
ReturnCalls == 1

ReturnFires == 2

ReturnExecs == 1

\* SpecIncomplete: calls (fires and executions as in SpecKinds)
IncompleteCalls == 2

\* SpecPreview: preview requests (calls, fires and executions as in SpecKinds)
MaxPreviews == 1

\* SpecKinds: calls, fires and executions
KindCalls == 1

\* scheduleTask / stopTask calls of a run whose calls do not overlap
SequentialCalls == 2

KindFires == 1

KindExecs == 1

\* ------------------------------------------------------------------------
\* State
\* ------------------------------------------------------------------------
VARIABLES
    now,             \* Date.now()
    scheduledTasks,  \* TaskScheduler.scheduledTasks: task id -> cron handle
    runningTasks,    \* TaskScheduler.runningTasks: task id -> interval/timeout
    handles,         \* the timer objects
    dbNext,          \* tasks.next_execution_time
    dbLast,          \* tasks.last_execution_time
    logs,            \* execution_logs: execution id -> row
    calls,           \* scheduleTask / stopTask calls suspended at an await,
                     \* in the order they were made
    execs,           \* executeTask invocations, by execution id
    issued,          \* number of calls the CRUD layer has made
    lastOp,          \* per task id, the operation called last
    stopped,         \* per task id: a stopTask has returned and no
                     \* scheduleTask was called since that stopTask was called
    trigger,         \* one computation of a next execution time:
                     \* [task, now, done, next]
    sandbox,         \* one SandboxExecutor.executeCommand call
    preview,         \* POST /api/tasks/preview: [count, last], the number of
                     \* requests answered and the last request and response
    lifecycle,       \* [phase, pending]: where the scheduler is between
                     \* construction, initialize() and shutdown(), and the
                     \* rows initialize() has loaded and not yet scheduled
    dbTasks,         \* the rows of the tasks table: [task, status]
    returned         \* per task id, what the scheduleTask call that returned
                     \* last gave back: "true" or "false" ("pending" from the
                     \* time a later scheduleTask is entered, "none" at first)

vars == <<now, scheduledTasks, runningTasks, handles, dbNext, dbLast, logs,
          calls, execs, issued, lastOp, stopped, budget, trigger, sandbox, returned,
                   preview, lifecycle, dbTasks>>

\* the dispatch state held in the variables
Table == [scheduledTasks |-> scheduledTasks, runningTasks |-> runningTasks,
          handles |-> handles, dbNext |-> dbNext]

SetTable(D) ==
    /\ scheduledTasks' = D.scheduledTasks
    /\ runningTasks' = D.runningTasks
    /\ handles' = D.handles
    /\ dbNext' = D.dbNext

\* no trigger computation and no sandbox call in the run
NoTrigger == [done |-> TRUE]

NoSandbox == [pc |-> "returned"]

NoBudget == [calls |-> 0, fires |-> 0, execs |-> 0, catalog |-> {}]

InitScheduler(b) ==
    /\ \E r \in BOOLEAN :
          budget = [calls |-> b.calls, fires |-> b.fires, execs |-> b.execs,
                    catalog |-> b.catalog, requireDefined |-> r]
    /\ now = StartTime
    /\ scheduledTasks = [id \in TaskIds |-> NoHandle]
    /\ runningTasks = [id \in TaskIds |-> NoHandle]
    /\ handles = <<>>
    /\ dbNext = [id \in TaskIds |-> Null]
    /\ dbLast = [id \in TaskIds |-> Null]
    /\ logs = <<>>
    /\ calls = <<>>
    /\ execs = <<>>
    /\ issued = 0
    /\ lastOp = [id \in TaskIds |-> "none"]
    /\ stopped = [id \in TaskIds |-> FALSE]
    /\ returned = [id \in TaskIds |-> "none"]
    /\ preview = [count |-> 0, last |-> Null]

\* the scheduler after initialize() on an empty tasks table
Initialized == lifecycle = [phase |-> "running", pending |-> <<>>] /\ dbTasks = <<>>

InitWith(b) ==
    InitScheduler(b) /\ trigger = NoTrigger /\ sandbox = NoSandbox /\ Initialized

Init == InitWith([calls |-> MaxCalls, fires |-> MaxFires, execs |-> MaxExecs,
                  catalog |-> DispatchCatalog])

InitPipeline == InitWith([calls |-> PipelineCalls, fires |-> PipelineFires,
                          execs |-> PipelineExecs, catalog |-> PipelineCatalog])

InitKinds == InitWith([calls |-> KindCalls, fires |-> KindFires,
                       execs |-> KindExecs, catalog |-> KindsCatalog])

InitReturn == InitWith([calls |-> ReturnCalls, fires |-> ReturnFires,
                        execs |-> ReturnExecs, catalog |-> ReturnCatalog])

InitIncomplete == InitWith([calls |-> IncompleteCalls, fires |-> KindFires,
                            execs |-> KindExecs, catalog |-> IncompleteCatalog])

InitPreview == InitWith([calls |-> KindCalls, fires |-> KindFires,
                         execs |-> KindExecs, catalog |-> PreviewCatalog])

\* no cron trigger in the pair: whether cron-parser resolves plays no part
InitPair ==
    /\ InitWith([calls |-> IncompleteCalls, fires |-> KindFires,
                 execs |-> KindExecs, catalog |-> PairCatalog])
    /\ budget.requireDefined

InitRecurring == InitWith([calls |-> KindCalls, fires |-> ReturnFires,
                           execs |-> KindExecs, catalog |-> RecurringCatalog])

InitDate == InitWith([calls |-> IncompleteCalls, fires |-> KindFires,
                      execs |-> KindExecs, catalog |-> DateCatalog])

InitCalendar ==
    /\ InitWith([calls |-> IncompleteCalls, fires |-> ReturnFires,
                 execs |-> KindExecs, catalog |-> CalendarCatalog])
    /\ budget.requireDefined

InitSequential == InitWith([calls |-> SequentialCalls, fires |-> TableFires,
                            execs |-> TableExecs, catalog |-> TableCatalog])

InitTable == InitWith([calls |-> TableCalls, fires |-> TableFires,
                       execs |-> TableExecs, catalog |-> TableCatalog])

\* ------------------------------------------------------------------------
\* scheduleTask and stopTask
\* ------------------------------------------------------------------------

\* bookkeeping when a new call is made for task id: no earlier call and no
\* timer armed so far belongs to the call made last; a new scheduleTask ends
\* the "stopped since" status of the stopTask calls still suspended
Superseded(cs, id, op) ==
    [i \in 1..Len(cs) |->
        IF cs[i].id = id
          THEN [cs[i] EXCEPT !.last = FALSE, !.clean = @ /\ op = "stop"]
          ELSE cs[i]]

SupersededTimers(D, id) ==
    [D EXCEPT !.handles = [h \in DOMAIN @ |->
        IF @[h].task.id = id THEN [@[h] EXCEPT !.last = FALSE] ELSE @[h]]]

\* scheduleTask(task) is entered: it runs stopTask(task.id) up to the await
\* of its UPDATE
EnterSchedule(D, task) ==
    /\ SetTable(SupersededTimers(StopSync(D, task.id), task.id))
    /\ calls' = Append(Superseded(calls, task.id, "schedule"),
                       [op |-> "schedule", id |-> task.id, task |-> task,
                        pc |-> "stopping", next |-> Null, last |-> TRUE, clean |-> FALSE])
    /\ lastOp' = [lastOp EXCEPT ![task.id] = "schedule"]
    /\ stopped' = [stopped EXCEPT ![task.id] = FALSE]
    /\ returned' = [returned EXCEPT ![task.id] = "pending"]

\* the CRUD layer calls scheduleTask(task)
ScheduleCall(task) ==
    /\ lifecycle.phase = "running"
    /\ issued < budget.calls
    /\ issued' = issued + 1
    /\ EnterSchedule(Table, task)
    /\ UNCHANGED <<now, dbLast, logs, execs, budget, trigger, sandbox,
                   preview, lifecycle, dbTasks>>

\* the CRUD layer calls stopTask(id): runs up to the await of the UPDATE
StopCall(id) ==
    /\ lifecycle.phase = "running"
    /\ issued < budget.calls
    /\ issued' = issued + 1
    /\ SetTable(SupersededTimers(StopSync(Table, id), id))
    /\ calls' = Append(Superseded(calls, id, "stop"),
                       [op |-> "stop", id |-> id, task |-> Null,
                        pc |-> "stopping", next |-> Null, last |-> TRUE, clean |-> TRUE])
    /\ lastOp' = [lastOp EXCEPT ![id] = "stop"]
    /\ UNCHANGED <<now, dbLast, logs, execs, stopped, budget, trigger, sandbox, returned,
                   preview, lifecycle, dbTasks>>

Without(cs, i) == SubSeq(cs, 1, i - 1) \o SubSeq(cs, i + 1, Len(cs))

\* the i-th suspended call resumes when its UPDATE has run
CallResume(i) ==
    /\ i \in 1..Len(calls)
    /\ LET c == calls[i]
       IN  IF c.op = "stop" THEN
             \* stopTask returns
             /\ SetTable(StopDb(Table, c.id))
             /\ calls' = Without(calls, i)
             /\ stopped' = [stopped EXCEPT ![c.id] = @ \/ c.clean]
             /\ UNCHANGED returned
           ELSE IF c.pc = "stopping" THEN
             \* the inner stopTask returns; scheduleTask arms the timer and
             \* computes the next execution time: it returns false when that
             \* throws, returns true when there is no next execution time,
             \* and awaits its own UPDATE otherwise
             LET next == NextFireTime(c.task, now)
                 thrown == ArmThrows(c.task, now)
             IN  /\ SetTable(Arm(StopDb(Table, c.id), c.task, now, c.last))
                 /\ calls' = IF thrown \/ IsNull(next) THEN Without(calls, i)
                             ELSE [calls EXCEPT ![i].pc = "persisting", ![i].next = next]
                 /\ returned' = IF thrown \/ IsNull(next)
                                  THEN [returned EXCEPT ![c.id] = IF thrown THEN "false" ELSE "true"]
                                  ELSE returned
                 /\ UNCHANGED stopped
           ELSE
             \* scheduleTask returns true
             /\ SetTable(Persist(Table, c.id, c.next))
             /\ calls' = Without(calls, i)
             /\ returned' = [returned EXCEPT ![c.id] = "true"]
             /\ UNCHANGED stopped
    /\ UNCHANGED <<now, dbLast, logs, execs, issued, lastOp, budget, trigger, sandbox,
                   preview, lifecycle, dbTasks>>

\* ------------------------------------------------------------------------
\* Execution pipeline: executeTask and handleRetry
\* ------------------------------------------------------------------------

\* executeTask(task) is entered: a fresh execution id, then the await of the
\* INSERT.  chain is the execution id of the timer fire the attempt descends
\* from (0: this attempt is the timer fire itself).
EnterExecute(task, chain) ==
    LET e == Len(execs) + 1
    IN  execs' = Append(execs, [task |-> task, pc |-> "inserting", startedAt |-> now,
                                outcome |-> Null,
                                chain |-> IF chain = 0 THEN e ELSE chain,
                                origin |-> IF chain = 0 THEN "timer" ELSE "retry"])

\* a seal that leaves a failed execution's row as it is
SetStatusSuccessOnly(e, st) ==
    logs' = IF st = "failed" THEN logs ELSE [logs EXCEPT ![e].status = st]

\* an execution id that every invocation shares
ExecutionIdShared(e) == 1

\* const executionId = uuidv4() of the e-th invocation of executeTask: an
\* id no other invocation has
ExecutionId(e) == e

\* executeTask's try / catch around the dispatch: a thrown error is not
\* passed on to the caller without the catch
AfterLogicUncaught(outcome) == IF outcome.ok THEN "sealingSuccess" ELSE "rejected"

\* where executeTask goes on after executeTaskLogic returned or threw: to
\* the success UPDATE, or into the catch block
AfterLogic(outcome) == IF outcome.ok THEN "sealingSuccess" ELSE "sealingFailed"

\* UPDATE execution_logs SET status = st, result / error = ... WHERE id = e
SetStatus(e, st) ==
    LET outcome == Val(execs[e].outcome)
        id == ExecutionId(e)
    IN  logs' = [logs EXCEPT ![id].status = st,
                             ![id].result = IF st = "success" THEN Some(outcome.result) ELSE @,
                             ![id].error = IF st = "failed" THEN Some(outcome.error) ELSE @]

\* a handleRetry that, out of retries, clears the timers of the task
GiveUpPauses(hs, task) ==
    [h \in DOMAIN hs |->
        IF hs[h].task.id = task.id THEN [hs[h] EXCEPT !.live = FALSE] ELSE hs[h]]

\* the timers after handleRetry's else branch (no retry left): it writes a
\* line to the log and nothing else
GiveUp(hs, task) == hs

\* an executeTask invocation resumes after the await it is suspended at
ExecResume(e) ==
    /\ e \in 1..Len(execs)
    /\ e <= budget.execs
    /\ LET x == execs[e]
           goto(pc) == execs' = [execs EXCEPT ![e].pc = pc]
       IN  CASE x.pc = "inserting" ->
                  \* INSERT INTO execution_logs ... 'running', retry_count 0
                  /\ logs' = [i \in DOMAIN logs \cup {ExecutionId(e)} |->
                                IF i = ExecutionId(e)
                                  THEN [task_id |-> x.task.id, status |-> "running",
                                               retry_count |-> 0, result |-> Null,
                                               error |-> Null]
                                ELSE logs[i]]
                  /\ goto("updatingLast")
                  /\ UNCHANGED <<dbLast, handles>>
             [] x.pc = "updatingLast" ->
                  \* UPDATE tasks SET last_execution_time; executeTaskLogic starts
                  /\ dbLast' = [dbLast EXCEPT ![x.task.id] = Some(x.startedAt)]
                  /\ goto("logic")
                  /\ UNCHANGED <<logs, handles>>
             [] x.pc = "logic" ->
                  \* executeTaskLogic returns or throws
                  /\ \E w \in Worlds(x.task) :
                        LET outcome == executeTaskLogic(x.task, w)
                        IN  execs' = [execs EXCEPT
                               ![e].outcome = Some(outcome),
                               ![e].pc = AfterLogic(outcome)]
                  /\ UNCHANGED <<logs, dbLast, handles>>
             [] x.pc = "sealingSuccess" ->
                  /\ SetStatus(e, "success")
                  /\ goto("done")
                  /\ UNCHANGED <<dbLast, handles>>
             [] x.pc = "sealingFailed" ->
                  \* the row is sealed; handleRetry awaits its SELECT
                  /\ SetStatus(e, "failed")
                  /\ goto("gettingLog")
                  /\ UNCHANGED <<dbLast, handles>>
             [] x.pc = "gettingLog" ->
                  LET retry == /\ ExecutionId(e) \in DOMAIN logs
                               /\ ShouldRetry(logs[ExecutionId(e)], x.task)
                  IN  /\ goto(IF retry THEN "updatingRetry" ELSE "done")
                      /\ handles' = IF retry THEN handles ELSE GiveUp(handles, x.task)
                      /\ UNCHANGED <<logs, dbLast>>
             [] x.pc = "updatingRetry" ->
                  \* UPDATE execution_logs SET retry_count; setTimeout(retry)
                  /\ logs' = [logs EXCEPT ![ExecutionId(e)].retry_count = @ + 1]
                  /\ handles' = WithTimer(handles,
                        [task |-> x.task, kind |-> "retry", due |-> now + x.task.retryInterval,
                         live |-> TRUE, last |-> FALSE, chain |-> x.chain])
                  /\ goto("done")
                  /\ UNCHANGED dbLast
             [] OTHER -> FALSE
    /\ UNCHANGED <<now, scheduledTasks, runningTasks, dbNext, calls, issued, lastOp, stopped,
                   budget, trigger, sandbox, returned,
                   preview, lifecycle, dbTasks>>

\* ------------------------------------------------------------------------
\* Timers and the clock
\* ------------------------------------------------------------------------

\* the timer object after one fire: a timeout is spent, setInterval and the
\* cron job fire again
AfterFire(t) ==
    CASE t.kind = "interval" ->
              [t EXCEPT !.due = t.due + TimerDelay(t.task.triggerConfig.interval)]
      [] t.kind = "cron" -> [t EXCEPT !.due = CronNext(t.task.triggerConfig.cron, t.due)]
      [] OTHER -> [t EXCEPT !.live = FALSE]

\* a due timer fires and runs its callback: executeTask(task) and, in the
\* visual / lunar branch of a recurring task, scheduleTask(task)
TimerFire(h) ==
    /\ h \in DOMAIN handles
    /\ handles[h].live
    /\ handles[h].due <= now
    /\ Len(execs) < budget.fires
    /\ LET t == handles[h]
           fired == Collect([Table EXCEPT !.handles[h] = AfterFire(t)])
       IN  /\ EnterExecute(t.task, t.chain)
           /\ IF t.kind = "timeout" /\ Reschedules(t.task)
                THEN EnterSchedule(fired, t.task)
                ELSE /\ SetTable(fired)
                     /\ UNCHANGED <<calls, lastOp, stopped, returned>>
    /\ UNCHANGED <<now, dbLast, logs, issued, budget, trigger, sandbox,
                   preview, lifecycle, dbTasks>>

\* time passes until the next timer is due
AdvanceClock ==
    LET live == {h \in DOMAIN handles : handles[h].live}
    IN  /\ live # {}
        /\ \A h \in live : handles[h].due > now
        /\ now' = MinOf({handles[h].due : h \in live})
        /\ UNCHANGED <<scheduledTasks, runningTasks, handles, dbNext, dbLast, logs,
                       calls, execs, issued, lastOp, stopped, budget, trigger, sandbox, returned,
                   preview, lifecycle, dbTasks>>

Next ==
    \/ \E task \in budget.catalog : ScheduleCall(task)
    \/ \E id \in {t.id : t \in budget.catalog} : StopCall(id)
    \/ \E i \in 1..Len(calls) : CallResume(i)
    \/ \E e \in 1..Len(execs) : ExecResume(e)
    \/ \E h \in DOMAIN handles : TimerFire(h)
    \/ AdvanceClock

Spec == Init /\ [][Next]_vars

SpecKinds == InitKinds /\ [][Next]_vars

SpecReturn == InitReturn /\ [][Next]_vars

\* calls of the CRUD layer that do not overlap: scheduleTask / stopTask is
\* called when every earlier call has returned
ScheduleAlone(task) == calls = <<>> /\ ScheduleCall(task)

StopAlone(id) == calls = <<>> /\ StopCall(id)

NextSequential ==
    \/ \E task \in budget.catalog : ScheduleAlone(task)
    \/ \E id \in {t.id : t \in budget.catalog} : StopAlone(id)
    \/ \E i \in 1..Len(calls) : CallResume(i)
    \/ \E e \in 1..Len(execs) : ExecResume(e)
    \/ \E h \in DOMAIN handles : TimerFire(h)
    \/ AdvanceClock

SpecSequential == InitSequential /\ [][NextSequential]_vars

SpecDate == InitDate /\ [][NextSequential]_vars

SpecCalendar == InitCalendar /\ [][NextSequential]_vars

\* a task that is scheduled and never stopped
NextRecurring ==
    \/ \E task \in budget.catalog : ScheduleCall(task)
    \/ \E i \in 1..Len(calls) : CallResume(i)
    \/ \E e \in 1..Len(execs) : ExecResume(e)
    \/ \E h \in DOMAIN handles : TimerFire(h)
    \/ AdvanceClock

\* what the event loop does by itself: database statements complete and
\* their continuations run, due timers fire, time passes
EventLoop ==
    \/ \E i \in 1..Len(calls) : CallResume(i)
    \/ \E e \in 1..Len(execs) : ExecResume(e)
    \/ \E h \in DOMAIN handles : TimerFire(h)
    \/ AdvanceClock

SpecRecurring == InitRecurring /\ [][NextRecurring]_vars /\ WF_vars(EventLoop)

SpecPair == InitPair /\ [][Next]_vars

\* ------------------------------------------------------------------------
\* startServer: initialize() before the server listens
\* ------------------------------------------------------------------------

\* a tasks table with a row for t1 and a row for t2, the scheduler constructed
InitStartup ==
    /\ InitScheduler([calls |-> KindCalls, fires |-> KindFires, execs |-> KindExecs,
                      catalog |-> StartupCatalog])
    /\ trigger = NoTrigger
    /\ sandbox = NoSandbox
    /\ lifecycle = [phase |-> "constructed", pending |-> <<>>]
    /\ \E a \in {t \in StartupCatalog : t.id = "t1"},
          b \in {t \in StartupCatalog : t.id = "t2"}, sa \in Statuses, sb \in Statuses :
          dbTasks = <<TaskRow(a, sa), TaskRow(b, sb)>>

\* the rows of the sequence rows that satisfy status = 'active', in order
RECURSIVE ActiveRows(_)
ActiveRows(rows) ==
    IF rows = <<>> THEN <<>>
    ELSE (IF Head(rows).status = "active" THEN <<Head(rows)>> ELSE <<>>)
            \o ActiveRows(Tail(rows))

\* initialize() up to the end of its SELECT
InitializeLoad ==
    /\ lifecycle.phase = "constructed"
    /\ lifecycle' = [phase |-> "initializing", pending |-> ActiveRows(dbTasks)]
    /\ UNCHANGED <<now, scheduledTasks, runningTasks, handles, dbNext, dbLast, logs, calls,
                   execs, issued, lastOp, stopped, budget, trigger, sandbox, returned,
                   preview, dbTasks>>

\* the loop of initialize(): the scheduleTask of the row before has
\* returned, scheduleTask(task) is called for the next row
InitializeSchedule ==
    /\ lifecycle.phase = "initializing"
    /\ calls = <<>>
    /\ lifecycle.pending # <<>>
    /\ lifecycle' = [lifecycle EXCEPT !.pending = Tail(@)]
    /\ EnterSchedule(Table, LoadedTask(Head(lifecycle.pending)))
    /\ UNCHANGED <<now, dbLast, logs, execs, issued, budget, trigger, sandbox, preview,
                   dbTasks>>

\* initialize() returns and the server starts to listen
InitializeReturn ==
    /\ lifecycle.phase = "initializing"
    /\ calls = <<>>
    /\ lifecycle.pending = <<>>
    /\ lifecycle' = [lifecycle EXCEPT !.phase = "running"]
    /\ UNCHANGED <<now, scheduledTasks, runningTasks, handles, dbNext, dbLast, logs, calls,
                   execs, issued, lastOp, stopped, budget, trigger, sandbox, returned,
                   preview, dbTasks>>

NextStartup ==
    \/ InitializeLoad
    \/ InitializeSchedule
    \/ InitializeReturn
    \/ Next

SpecStartup == InitStartup /\ [][NextStartup]_vars

\* ------------------------------------------------------------------------
\* routes/tasks.ts: PUT /:id, DELETE /:id and POST /batch
\* ------------------------------------------------------------------------

\* the tasks of the runs of SpecRoutes, whose trigger parts are also sent
\* in the body of PUT
RoutesCatalog ==
    { MkTask("t1", "interval", [interval |-> 60], 0),
      MkTask("t1", "cron", [cron |-> [every |-> "minute"]], 0),
      MkTask("t2", "date", [date |-> StartTime + 60], 0) }

\* number of requests in a run
MaxRequests == 2

\* the bodies of PUT for task id: a status alone, and a status with the
\* trigger part of the task
PutBodies(id) ==
    {[status |-> s] : s \in Statuses}
        \cup {[status |-> s, triggerType |-> t.triggerType,
               triggerConfig |-> t.triggerConfig] :
                 s \in Statuses, t \in {x \in RoutesCatalog : x.id = id}}

\* the taskIds arrays of POST /batch
BatchIds == {<<"t1">>, <<"t2", "t1">>}

\* { ...a, ...b }
Merge(a, b) ==
    [f \in DOMAIN a \cup DOMAIN b |-> IF f \in DOMAIN b THEN b[f] ELSE a[f]]

\* the index of the row of task id in the tasks table, 0 when there is none
RowIndex(rows, id) ==
    IF \E i \in 1..Len(rows) : rows[i].id = id
      THEN CHOOSE i \in 1..Len(rows) : rows[i].id = id
      ELSE 0

\* DELETE FROM tasks WHERE id = ?
DeleteRow(rows, id) == SelectSeq(rows, LAMBDA r : r.id # id)

\* a tasks table with a paused row for t1 and for t2 and nothing armed: the
\* tasks were created and then paused
InitRoutes ==
    /\ InitScheduler([calls |-> MaxRequests, fires |-> KindFires, execs |-> KindExecs,
                      catalog |-> RoutesCatalog])
    /\ trigger = NoTrigger
    /\ sandbox = NoSandbox
    /\ lifecycle = [phase |-> "running", pending |-> <<>>, request |-> Null]
    /\ \E a \in {t \in RoutesCatalog : t.id = "t1"},
          b \in {t \in RoutesCatalog : t.id = "t2"} :
          dbTasks = <<TaskRow(a, "paused"), TaskRow(b, "paused")>>

\* stopTask(id) is entered from a route: it runs up to the await of its
\* UPDATE
EnterStop(id) ==
    /\ SetTable(SupersededTimers(StopSync(Table, id), id))
    /\ calls' = Append(Superseded(calls, id, "stop"),
                       [op |-> "stop", id |-> id, task |-> Null,
                        pc |-> "stopping", next |-> Null, last |-> TRUE, clean |-> TRUE])
    /\ lastOp' = [lastOp EXCEPT ![id] = "stop"]
    /\ UNCHANGED <<stopped, returned>>

\* PUT /:id with an existing row, up to the await inside scheduleTask /
\* stopTask: the SELECT, the merge of the row with the body, the UPDATE
\* that stores the merged task, and the call of scheduleTask(updatedTask)
\* for status active, of stopTask(id) otherwise (no other request is under
\* way, and nothing else writes the columns the SELECT and UPDATE touch)
PutRequest(id, body) ==
    /\ lifecycle.phase = "running"
    /\ IsNull(lifecycle.request)
    /\ calls = <<>>
    /\ issued < budget.calls
    /\ RowIndex(dbTasks, id) # 0
    /\ LET i == RowIndex(dbTasks, id)
           existingTask == Merge(LoadedTask(dbTasks[i]), [status |-> dbTasks[i].status])
           updatedTask == Merge(existingTask, body)
       IN  /\ dbTasks' = [dbTasks EXCEPT ![i] =
                 [@ EXCEPT !.type = updatedTask.type,
                           !.config = JSONStringify(updatedTask.config),
                           !.trigger_type = updatedTask.triggerType,
                           !.trigger_config = JSONStringify(updatedTask.triggerConfig),
                           !.status = updatedTask.status,
                           !.max_retries = updatedTask.maxRetries,
                           !.retry_interval = updatedTask.retryInterval]]
           /\ IF updatedTask.status = "active"
                THEN EnterSchedule(Table, [f \in DOMAIN LoadedTask(dbTasks[i]) |->
                                              updatedTask[f]])
                ELSE EnterStop(id)
    /\ issued' = issued + 1
    /\ lifecycle' = [lifecycle EXCEPT !.request =
          Some([kind |-> "put", pending |-> <<>>, action |-> "put", cleanup |-> Null,
                touched |-> {id}])]
    /\ UNCHANGED <<now, dbLast, logs, execs, budget, trigger, sandbox, preview>>

\* DELETE /:id up to the await inside stopTask; the row is deleted when
\* stopTask has returned
DeleteRequest(id) ==
    /\ lifecycle.phase = "running"
    /\ IsNull(lifecycle.request)
    /\ calls = <<>>
    /\ issued < budget.calls
    /\ EnterStop(id)
    /\ issued' = issued + 1
    /\ lifecycle' = [lifecycle EXCEPT !.request =
          Some([kind |-> "delete", pending |-> <<>>, action |-> "delete",
                cleanup |-> Some(id), touched |-> {id}])]
    /\ UNCHANGED <<now, dbLast, logs, execs, budget, trigger, sandbox, preview, dbTasks>>

\* POST /batch is received
BatchRequest(action, taskIds) ==
    /\ lifecycle.phase = "running"
    /\ IsNull(lifecycle.request)
    /\ calls = <<>>
    /\ issued < budget.calls
    /\ issued' = issued + 1
    /\ lifecycle' = [lifecycle EXCEPT !.request =
          Some([kind |-> "batch", pending |-> taskIds, action |-> action,
                cleanup |-> Null, touched |-> {taskIds[k] : k \in 1..Len(taskIds)}])]
    /\ UNCHANGED <<now, scheduledTasks, runningTasks, handles, dbNext, dbLast, logs, calls,
                   execs, lastOp, stopped, budget, trigger, sandbox, returned, preview,
                   dbTasks>>

\* one pass of the loop of POST /batch, when the scheduler call of the pass
\* before has returned: the DELETE that ends a delete pass, then for the
\* next id stopTask (delete), or the UPDATE of the status followed by the
\* SELECT and scheduleTask(task) of the row as selected (start) or by
\* stopTask (pause)
BatchStep ==
    /\ ~IsNull(lifecycle.request)
    /\ Val(lifecycle.request).kind = "batch"
    /\ Val(lifecycle.request).pending # <<>>
    /\ calls = <<>>
    /\ LET r == Val(lifecycle.request)
           taskId == Head(r.pending)
           rows == IF IsNull(r.cleanup) THEN dbTasks ELSE DeleteRow(dbTasks, Val(r.cleanup))
           i == RowIndex(rows, taskId)
           newStatus == IF r.action = "start" THEN "active" ELSE "paused"
           updated == IF i = 0 THEN rows ELSE [rows EXCEPT ![i].status = newStatus]
       IN  /\ lifecycle' = [lifecycle EXCEPT !.request =
                 Some([r EXCEPT !.pending = Tail(@),
                                !.cleanup = IF r.action = "delete" THEN Some(taskId)
                                            ELSE Null])]
           /\ IF r.action = "delete"
                THEN dbTasks' = rows /\ EnterStop(taskId)
              ELSE IF newStatus = "active"
                THEN /\ dbTasks' = updated
                     /\ IF i # 0
                          THEN EnterSchedule(Table, LoadedTask(updated[i]))
                          ELSE UNCHANGED <<scheduledTasks, runningTasks, handles, dbNext,
                                           calls, lastOp, stopped, returned>>
              ELSE dbTasks' = updated /\ EnterStop(taskId)
    /\ UNCHANGED <<now, dbLast, logs, execs, issued, budget, trigger, sandbox, preview>>

\* the handler sends its response: the scheduler call it awaited has
\* returned, the DELETE of a delete has run
RequestReturn ==
    /\ ~IsNull(lifecycle.request)
    /\ Val(lifecycle.request).pending = <<>>
    /\ calls = <<>>
    /\ dbTasks' = IF IsNull(Val(lifecycle.request).cleanup) THEN dbTasks
                  ELSE DeleteRow(dbTasks, Val(Val(lifecycle.request).cleanup))
    /\ lifecycle' = [lifecycle EXCEPT !.request = Null]
    /\ UNCHANGED <<now, scheduledTasks, runningTasks, handles, dbNext, dbLast, logs, calls,
                   execs, issued, lastOp, stopped, budget, trigger, sandbox, returned,
                   preview>>

NextRoutes ==
    \/ \E id \in TaskIds : \E body \in PutBodies(id) : PutRequest(id, body)
    \/ \E id \in TaskIds : DeleteRequest(id)
    \/ \E action \in {"start", "pause", "delete"}, taskIds \in BatchIds :
          BatchRequest(action, taskIds)
    \/ BatchStep
    \/ RequestReturn
    \/ \E i \in 1..Len(calls) : CallResume(i)
    \/ \E e \in 1..Len(execs) : ExecResume(e)
    \/ \E h \in DOMAIN handles : TimerFire(h)
    \/ AdvanceClock

SpecRoutes == InitRoutes /\ [][NextRoutes]_vars

\* ------------------------------------------------------------------------
\* shutdown()
\* ------------------------------------------------------------------------

\* shutdown(): stop every cron job of scheduledTasks, clear every timer of
\* runningTasks, empty both maps; it has no await
Shutdown ==
    /\ lifecycle.phase = "running"
    /\ LET inMaps == ({scheduledTasks[id] : id \in TaskIds}
                        \cup {runningTasks[id] : id \in TaskIds}) \ {NoHandle}
           cancelled == [h \in DOMAIN handles |->
                           IF h \in inMaps THEN [handles[h] EXCEPT !.live = FALSE]
                           ELSE handles[h]]
       IN  SetTable(Collect([Table EXCEPT
              !.handles = cancelled,
              !.scheduledTasks = [id \in TaskIds |-> NoHandle],
              !.runningTasks = [id \in TaskIds |-> NoHandle]]))
    /\ lifecycle' = [lifecycle EXCEPT !.phase = "shut down"]
    /\ UNCHANGED <<now, dbLast, logs, calls, execs, issued, lastOp, stopped, budget,
                   trigger, sandbox, returned, preview, dbTasks>>

NextShutdown ==
    \/ Next
    \/ Shutdown

SpecShutdown == Init /\ [][NextShutdown]_vars

\* ------------------------------------------------------------------------
\* POST /api/tasks/preview
\* ------------------------------------------------------------------------

\* the bodies of the preview requests: the tasks of the run, and one body
\* without a config
PreviewRequests ==
    {[name |-> "preview", type |-> t.type, config |-> t.config] : t \in budget.catalog}
        \cup {[name |-> "preview", type |-> "http"]}

\* the previewTask object the route builds from the body
PreviewTask(taskData) ==
    [id |-> "preview", type |-> taskData.type, config |-> taskData.config,
     triggerType |-> "cron", triggerConfig |-> [x \in {} |-> 0],
     maxRetries |-> 3, retryInterval |-> 5]

\* the response of the route for what executeTaskLogic returned or threw
PreviewResponse(outcome) ==
    IF outcome.ok THEN [status |-> 200, success |-> TRUE, data |-> outcome.result]
    ELSE [status |-> 500, success |-> FALSE, error |-> outcome.error]

\* a preview that also records the time of the execution in the tasks table
PreviewTouchesTask ==
    /\ dbLast' = [dbLast EXCEPT !["t1"] = Some(now)]
    /\ UNCHANGED <<now, scheduledTasks, runningTasks, handles, dbNext, logs, calls, execs,
                   issued, lastOp, stopped, budget, trigger, sandbox, returned, lifecycle,
                   dbTasks>>

\* what the route leaves alone: all but its response
PreviewLeaves ==
    UNCHANGED <<now, scheduledTasks, runningTasks, handles, dbNext, dbLast, logs, calls,
                execs, issued, lastOp, stopped, budget, trigger, sandbox, returned,
                lifecycle, dbTasks>>

\* POST /api/tasks/preview with body taskData, the dispatch meeting world w
Preview(taskData) ==
    /\ lifecycle.phase = "running"
    /\ preview.count < MaxPreviews
    /\ IF ~(Has(taskData, "name") /\ Has(taskData, "type") /\ Has(taskData, "config"))
         THEN preview' = [count |-> preview.count + 1,
                          last |-> Some([request |-> taskData,
                                         response |-> [status |-> 400]])]
         ELSE \E w \in Worlds(PreviewTask(taskData)) :
                 preview' = [count |-> preview.count + 1,
                             last |-> Some([request |-> taskData,
                                            response |-> PreviewResponse(
                                                executeTaskLogic(PreviewTask(taskData), w))])]
    /\ PreviewLeaves

NextPreview ==
    \/ Next
    \/ \E taskData \in PreviewRequests : Preview(taskData)

SpecPreview == InitPreview /\ [][NextPreview]_vars

SpecIncomplete == InitIncomplete /\ [][Next]_vars

SpecPipeline == InitPipeline /\ [][Next]_vars

SpecTable == InitTable /\ [][Next]_vars

\* ------------------------------------------------------------------------
\* The trigger calculator on its own: one task and one instant per run
\* ------------------------------------------------------------------------

\* largest visualValue / countdown amount / conditionDelay / interval count
MaxValue == 2

\* trigger configurations, by kind
CronConfigs ==
    {[cron |-> [every |-> "minute"]], [cron |-> [every |-> "day", hour |-> 9, minute |-> 0]]}

IntervalConfigs == {[interval |-> 60 * k] : k \in 0..MaxValue}

DateConfigs == {[date |-> StartTime + d] : d \in {0 - 60, 0, 60}}

VisualTimes == {Chars(9, 0), Chars(10, 0), Chars(23, 59)}

VisualConfigs ==
    {[visualType |-> "once", visualTime |-> t] : t \in VisualTimes}
    \cup {[visualType |-> ty, visualValue |-> v] : ty \in {"minute", "hour"}, v \in 0..MaxValue}
    \cup {[visualType |-> "minute"]}
    \cup {[visualType |-> "day", visualValue |-> v, visualTime |-> t] :
              v \in 0..MaxValue, t \in VisualTimes}
    \cup {[visualType |-> "week", visualDays |-> ds, visualTime |-> Chars(9, 0)] :
              ds \in {{}, {1}, {0, 3}, {6}}}
    \cup {[visualType |-> "month", visualDate |-> d, visualTime |-> Chars(9, 0)] :
              d \in {1, 15, 31}}

LunarConfigs ==
    {[lunarYear |-> 2024, lunarMonth |-> m, lunarDay |-> d, lunarRepeat |-> r] :
        m \in {1, 2, 12}, d \in {1, 31}, r \in BOOLEAN}

CountdownConfigs ==
    {[countdownStartTime |-> StartTime, countdownMinutes |-> v] : v \in 0..MaxValue}
    \cup {[countdownStartTime |-> StartTime - 3600, countdownHours |-> v, countdownSeconds |-> 30] :
              v \in 0..MaxValue}

ConditionalConfigs ==
    {[conditionType |-> ty] : ty \in {"system_startup", "system_resume", "network_connected"}}
    \cup {[conditionType |-> "system_startup", conditionDelay |-> v] : v \in 0..MaxValue}

TriggerCatalog ==
    {MkTask("t1", "cron", c, 0) : c \in CronConfigs}
    \cup {MkTask("t1", "interval", c, 0) : c \in IntervalConfigs}
    \cup {MkTask("t1", "date", c, 0) : c \in DateConfigs}
    \cup {MkTask("t1", "visual", c, 0) : c \in VisualConfigs}
    \cup {MkTask("t1", "lunar", c, 0) : c \in LunarConfigs}
    \cup {MkTask("t1", "countdown", c, 0) : c \in CountdownConfigs}
    \cup {MkTask("t1", "conditional", c, 0) : c \in ConditionalConfigs}

\* the instants the computation is made at: Wednesday 2024-01-31 10:00:00,
\* Monday 2024-01-01 10:00:00, Sunday 2024-01-07 09:00:00, leap day
\* 2024-02-29 23:59:30 and 2024-12-31 23:59:59
TriggerTimes ==
    {StartTime, MakeTime(2024, 0, 1, 10, 0, 0), MakeTime(2024, 0, 7, 9, 0, 0),
     MakeTime(2024, 1, 29, 23, 59, 30), MakeTime(2024, 11, 31, 23, 59, 59)}

InitTrigger ==
    /\ InitScheduler(NoBudget)
    /\ Initialized
    /\ sandbox = NoSandbox
    /\ \E task \in TriggerCatalog, t \in TriggerTimes :
          trigger = [task |-> task, now |-> t, done |-> FALSE, next |-> Null]

\* scheduleTask computes nextExecutionTime for the task
ComputeNextFireTime ==
    /\ ~trigger.done
    /\ trigger' = [trigger EXCEPT !.done = TRUE, !.next = NextFireTime(trigger.task, trigger.now)]
    /\ UNCHANGED <<now, scheduledTasks, runningTasks, handles, dbNext, dbLast, logs,
                   calls, execs, issued, lastOp, stopped, budget, sandbox, returned,
                   preview, lifecycle, dbTasks>>

NextTrigger == ComputeNextFireTime

SpecTrigger == InitTrigger /\ [][NextTrigger]_vars

\* ------------------------------------------------------------------------
\* SandboxExecutor.executeCommand on its own: one command per run
\* ------------------------------------------------------------------------

\* pieces the commands of the model are put together from
Fragments ==
    {<<"l", "s">>, <<"e", "c", "h", "o">>, <<"r", "m">>, <<" ">>, <<"-", "r", "f">>,
     <<"S", "u", "d", "o">>, <<"c", "u", "r", "l">>, <<"x">>, <<";">>, <<"&">>, <<Backtick>>,
     <<"$", "(">>, <<"\t">>}

\* number of pieces in a command
MaxFragments == 3

RECURSIVE Concatenations(_)
Concatenations(n) ==
    IF n = 0 THEN {<<>>}
    ELSE LET shorter == Concatenations(n - 1)
         IN  shorter \cup {c \o f : c \in shorter, f \in Fragments}

\* "ls " followed by n times "a"
Padded(n) == <<"l", "s", " ">> \o [i \in 1..n |-> "a"]

\* the commands of the model: the concatenations, and a command of exactly
\* the longest permitted length and one a character longer
Commands ==
    Concatenations(MaxFragments)
        \cup {Padded(MaxCommandLength - 3), Padded(MaxCommandLength - 2)}

InitSandbox ==
    /\ InitScheduler(NoBudget)
    /\ Initialized
    /\ trigger = NoTrigger
    /\ \E command \in Commands :
          sandbox = [pc |-> "called", command |-> command, workspace |-> FALSE,
                     spawned |-> FALSE, killed |-> FALSE, signalled |-> FALSE,
                     result |-> Null]

SchedulerVars ==
    <<now, scheduledTasks, runningTasks, handles, dbNext, dbLast, logs, calls, execs,
      issued, lastOp, stopped, budget, returned, preview, lifecycle, dbTasks>>

\* executeCommand up to its await: validation, then createIsolatedWorkspace
\* and spawn, or the rejection
ExecuteCommand ==
    /\ sandbox.pc = "called"
    /\ LET validation == validateCommand(sandbox.command)
       IN  IF ~validation.safe
             THEN sandbox' = [sandbox EXCEPT
                     !.pc = "returned",
                     !.result = Some(RejectedResult(validation.reason))]
             ELSE sandbox' = [sandbox EXCEPT
                     !.pc = "running", !.workspace = TRUE, !.spawned = TRUE]
    /\ UNCHANGED <<SchedulerVars, trigger>>

\* the timeout callback: childProcess.kill() and the note appended to stderr
SandboxTimeout ==
    /\ sandbox.pc = "running"
    /\ ~sandbox.killed
    /\ sandbox' = [sandbox EXCEPT !.killed = TRUE]
    /\ UNCHANGED <<SchedulerVars, trigger>>

\* the child's close event with exit code code (Null: ended by a signal);
\* executeCommand resolves code || 0 and returns
ChildClose(code) ==
    /\ sandbox.pc = "running"
    /\ IsNull(code) => sandbox.killed
    /\ sandbox' = [sandbox EXCEPT
          !.pc = "returned",
          !.signalled = IsNull(code),
          !.result = Some(ClosedResult(code, sandbox.killed))]
    /\ UNCHANGED <<SchedulerVars, trigger>>

NextSandbox ==
    \/ ExecuteCommand
    \/ SandboxTimeout
    \/ \E code \in {Null, Some(0), Some(1)} : ChildClose(code)

SpecSandbox == InitSandbox /\ [][NextSandbox]_vars

\* ---------------------------------------------------------------------
\* executeScript: the script path of the sandbox executor

\* supportedLanguages of executeScript
supportedLanguages == {<<"j", "a", "v", "a", "s", "c", "r", "i", "p", "t">>, <<"p", "y", "t", "h", "o", "n">>, <<"b", "a", "s", "h">>}

\* the longest script executeScript lets through
MaxScriptLength == 10000

\* the string s has the string w at position i
StartsAt(s, i, w) ==
    /\ i + Len(w) - 1 <= Len(s)
    /\ \A k \in 1..Len(w) : s[i + k - 1] = w[k]

\* the positions after a match, begun at position i of s, of the items of a
\* regular expression: a literal text, a run of at least min white space
\* characters (\s* and \s+), a run of any characters but the line break
\* (.*), or one of the two quote characters
RECURSIVE MatchFrom(_, _, _)
MatchFrom(s, i, items) ==
    IF items = <<>> THEN {i}
    ELSE LET item == Head(items)
             after ==
                 CASE item.kind = "lit" ->
                        IF StartsAt(s, i, item.text) THEN {i + Len(item.text)} ELSE {}
                   [] item.kind = "ws" ->
                        {j \in (i + item.min)..(Len(s) + 1) :
                            \A k \in i..(j - 1) : s[k] \in WhiteSpace}
                   [] item.kind = "any" ->
                        {j \in i..(Len(s) + 1) : \A k \in i..(j - 1) : s[k] # "\n"}
                   [] item.kind = "quote" ->
                        IF i <= Len(s) /\ s[i] \in {"'", "\""} THEN {i + 1} ELSE {}
         IN  UNION {MatchFrom(s, j, Tail(items)) : j \in after}

\* pattern.test(s) of a regular expression made anew for the call
RegExpTest(items, s) == \E i \in 1..(Len(s) + 1) : MatchFrom(s, i, items) # {}

\* the dangerousPatterns array of executeScript
dangerousPatterns ==
    <<<<[kind |-> "lit", text |-> <<"r", "e", "q", "u", "i", "r", "e">>, min |-> 0],
        [kind |-> "ws", text |-> <<>>, min |-> 0],
        [kind |-> "lit", text |-> <<"(">>, min |-> 0],
        [kind |-> "ws", text |-> <<>>, min |-> 0],
        [kind |-> "quote", text |-> <<>>, min |-> 0],
        [kind |-> "lit", text |-> <<"f", "s">>, min |-> 0],
        [kind |-> "quote", text |-> <<>>, min |-> 0],
        [kind |-> "ws", text |-> <<>>, min |-> 0],
        [kind |-> "lit", text |-> <<")">>, min |-> 0]>>,
      <<[kind |-> "lit", text |-> <<"r", "e", "q", "u", "i", "r", "e">>, min |-> 0],
        [kind |-> "ws", text |-> <<>>, min |-> 0],
        [kind |-> "lit", text |-> <<"(">>, min |-> 0],
        [kind |-> "ws", text |-> <<>>, min |-> 0],
        [kind |-> "quote", text |-> <<>>, min |-> 0],
        [kind |-> "lit", text |-> <<"c", "h", "i", "l", "d", "_", "p", "r", "o", "c", "e", "s", "s">>, min |-> 0],
        [kind |-> "quote", text |-> <<>>, min |-> 0],
        [kind |-> "ws", text |-> <<>>, min |-> 0],
        [kind |-> "lit", text |-> <<")">>, min |-> 0]>>,
      <<[kind |-> "lit", text |-> <<"i", "m", "p", "o", "r", "t">>, min |-> 0],
        [kind |-> "ws", text |-> <<>>, min |-> 1],
        [kind |-> "any", text |-> <<>>, min |-> 0],
        [kind |-> "ws", text |-> <<>>, min |-> 1],
        [kind |-> "lit", text |-> <<"f", "r", "o", "m">>, min |-> 0],
        [kind |-> "ws", text |-> <<>>, min |-> 1],
        [kind |-> "quote", text |-> <<>>, min |-> 0],
        [kind |-> "lit", text |-> <<"f", "s">>, min |-> 0],
        [kind |-> "quote", text |-> <<>>, min |-> 0]>>,
      <<[kind |-> "lit", text |-> <<"i", "m", "p", "o", "r", "t">>, min |-> 0],
        [kind |-> "ws", text |-> <<>>, min |-> 1],
        [kind |-> "any", text |-> <<>>, min |-> 0],
        [kind |-> "ws", text |-> <<>>, min |-> 1],
        [kind |-> "lit", text |-> <<"f", "r", "o", "m">>, min |-> 0],
        [kind |-> "ws", text |-> <<>>, min |-> 1],
        [kind |-> "quote", text |-> <<>>, min |-> 0],
        [kind |-> "lit", text |-> <<"c", "h", "i", "l", "d", "_", "p", "r", "o", "c", "e", "s", "s">>, min |-> 0],
        [kind |-> "quote", text |-> <<>>, min |-> 0]>>,
      <<[kind |-> "lit", text |-> <<"e", "x", "e", "c">>, min |-> 0],
        [kind |-> "ws", text |-> <<>>, min |-> 0],
        [kind |-> "lit", text |-> <<"(">>, min |-> 0]>>,
      <<[kind |-> "lit", text |-> <<"s", "p", "a", "w", "n">>, min |-> 0],
        [kind |-> "ws", text |-> <<>>, min |-> 0],
        [kind |-> "lit", text |-> <<"(">>, min |-> 0]>>,
      <<[kind |-> "lit", text |-> <<"e", "v", "a", "l">>, min |-> 0],
        [kind |-> "ws", text |-> <<>>, min |-> 0],
        [kind |-> "lit", text |-> <<"(">>, min |-> 0]>>,
      <<[kind |-> "lit", text |-> <<"F", "u", "n", "c", "t", "i", "o", "n">>, min |-> 0],
        [kind |-> "ws", text |-> <<>>, min |-> 0],
        [kind |-> "lit", text |-> <<"(">>, min |-> 0]>>,
      <<[kind |-> "lit", text |-> <<"p", "r", "o", "c", "e", "s", "s", ".", "e", "x", "i", "t">>, min |-> 0]>>,
      <<[kind |-> "lit", text |-> <<"r", "m">>, min |-> 0],
        [kind |-> "ws", text |-> <<>>, min |-> 1],
        [kind |-> "lit", text |-> <<"-", "r", "f">>, min |-> 0]>>,
      <<[kind |-> "lit", text |-> <<"s", "u", "d", "o">>, min |-> 0],
        [kind |-> "ws", text |-> <<>>, min |-> 1]>>>>

\* the checks of executeScript without the scan for dangerous patterns
ScriptRejectionUnscanned(scriptContent, language) ==
    IF ToLowerCase(language) \notin supportedLanguages
      THEN Some(<<"unsupported language", language>>)
    ELSE IF scriptContent = <<>> \/ Len(scriptContent) > MaxScriptLength
      THEN Some(<<"invalid script">>)
    ELSE Null

\* the three checks executeScript makes before its try block: Null, or the
\* kind of the message it returns
ScriptRejection(scriptContent, language) ==
    IF ToLowerCase(language) \notin supportedLanguages
      THEN Some(<<"unsupported language", language>>)
    ELSE IF scriptContent = <<>> \/ Len(scriptContent) > MaxScriptLength
      THEN Some(<<"invalid script">>)
    ELSE IF \E p \in 1..Len(dangerousPatterns) : RegExpTest(dangerousPatterns[p], scriptContent)
      THEN Some(<<"dangerous pattern">>)
    ELSE Null

\* process.cwd() of the server
Cwd == <<"/", "a", "p", "p">>

\* createIsolatedWorkspace: join(baseSandboxDir, 'task_' + taskId)
createIsolatedWorkspace(taskId) == Cwd \o <<"/", "s", "a", "n", "d", "b", "o", "x", "/", "t", "a", "s", "k", "_">> \o taskId

\* createScriptFile: the path of the file it writes
createScriptFile(language, workspaceDir) ==
    workspaceDir \o
        (CASE ToLowerCase(language) = <<"j", "a", "v", "a", "s", "c", "r", "i", "p", "t">> -> <<"/", "s", "c", "r", "i", "p", "t", ".", "j", "s">>
           [] ToLowerCase(language) = <<"p", "y", "t", "h", "o", "n">> -> <<"/", "s", "c", "r", "i", "p", "t", ".", "p", "y">>
           [] ToLowerCase(language) = <<"b", "a", "s", "h">> -> <<"/", "s", "c", "r", "i", "p", "t", ".", "s", "h">>)

\* buildExecutionCommand
buildExecutionCommand(language, scriptFile) ==
    (CASE ToLowerCase(language) = <<"j", "a", "v", "a", "s", "c", "r", "i", "p", "t">> -> <<"n", "o", "d", "e">>
       [] ToLowerCase(language) = <<"p", "y", "t", "h", "o", "n">> -> <<"p", "y", "t", "h", "o", "n">>
       [] ToLowerCase(language) = <<"b", "a", "s", "h">> -> <<"b", "a", "s", "h">>)
        \o <<" ", "\"">> \o scriptFile \o <<"\"">>

\* the pieces script sources are put together from
ScriptFragments ==
    {<<"x">>,
     <<" ">>,
     <<"(">>,
     <<"e", "v", "a", "l">>,
     <<"s", "u", "d", "o">>,
     <<"r", "m">>,
     <<"-", "r", "f">>}

\* number of pieces in a script source
MaxPieces == 2

RECURSIVE Sources(_)
Sources(n) ==
    IF n = 0 THEN {<<>>}
    ELSE LET shorter == Sources(n - 1)
         IN  shorter \cup {c \o f : c \in shorter, f \in ScriptFragments}

\* a source of n characters
LongScript(n) == <<"a">> \o [i \in 1..(n - 1) |-> "a"]

\* the script sources of the model: the concatenations, sources with the
\* other denylisted forms and forms close to them, and a source of exactly
\* the longest permitted length and one a character longer
Scripts ==
    Sources(MaxPieces)
        \cup {<<"p", "r", "o", "c", "e", "s", "s", ".", "e", "x", "i", "t", "(", "0", ")">>,
              <<"e", "x", "e", "c", " ", "(", "1", ")">>,
              <<"s", "p", "a", "w", "n", "(", "x", ")">>,
              <<"n", "e", "w", " ", "F", "u", "n", "c", "t", "i", "o", "n", "(", "x", ")">>,
              <<"E", "v", "a", "l", "(", "x", ")">>,
              <<"p", "r", "i", "n", "t", "(", "1", ")", "\n", "p", "r", "i", "n", "t", "(", "2", ")">>,
              <<"r", "e", "q", "u", "i", "r", "e", "(", "'", "f", "s", "'", ")">>,
              <<"r", "e", "q", "u", "i", "r", "e", " ", "(", " ", "\"", "c", "h", "i", "l", "d", "_", "p", "r", "o", "c", "e", "s", "s", "\"", " ", ")">>,
              <<"i", "m", "p", "o", "r", "t", " ", "x", " ", "f", "r", "o", "m", " ", "'", "f", "s", "'">>,
              <<"i", "m", "p", "o", "r", "t", " ", "{", "s", "p", "a", "w", "n", "}", " ", "f", "r", "o", "m", " ", "\"", "c", "h", "i", "l", "d", "_", "p", "r", "o", "c", "e", "s", "s", "\"">>,
              <<"i", "m", "p", "o", "r", "t", " ", "f", "s">>,
              LongScript(MaxScriptLength), LongScript(MaxScriptLength + 1)}

\* the languages of the model
Languages ==
    {<<"j", "a", "v", "a", "s", "c", "r", "i", "p", "t">>, <<"p", "y", "t", "h", "o", "n">>, <<"b", "a", "s", "h">>,
     <<"J", "a", "v", "a", "S", "c", "r", "i", "p", "t">>, <<"r", "u", "b", "y">>}

\* the task ids of the model: hexadecimal digits of a uuid
ScriptTaskIds == {<<"a", "1">>, <<"7", "d", "d", "e">>}

InitScript ==
    /\ InitScheduler(NoBudget)
    /\ Initialized
    /\ trigger = NoTrigger
    /\ \E scriptContent \in Scripts, language \in Languages, taskId \in ScriptTaskIds :
          sandbox = [pc |-> "scriptCalled", scriptContent |-> scriptContent,
                     language |-> language, taskId |-> taskId, file |-> Null,
                     command |-> <<>>, workspace |-> FALSE, spawned |-> FALSE,
                     killed |-> FALSE, signalled |-> FALSE, result |-> Null]

\* executeScript up to the await inside executeCommand: the three checks,
\* then createIsolatedWorkspace, createScriptFile (which throws where
\* require is not defined), buildExecutionCommand, and executeCommand's
\* validation and spawn
ExecuteScript ==
    /\ sandbox.pc = "scriptCalled"
    /\ LET rejection == ScriptRejection(sandbox.scriptContent, sandbox.language)
           workspaceDir == createIsolatedWorkspace(sandbox.taskId)
           scriptFile == createScriptFile(sandbox.language, workspaceDir)
           executionCommand == buildExecutionCommand(sandbox.language, scriptFile)
           validation == validateCommand(executionCommand)
       IN  IF ~IsNull(rejection)
             THEN sandbox' = [sandbox EXCEPT
                     !.pc = "returned",
                     !.result = Some(RejectedResult(Val(rejection)))]
           ELSE IF ~budget.requireDefined
             THEN sandbox' = [sandbox EXCEPT
                     !.pc = "returned", !.workspace = TRUE,
                     !.result = Some(RejectedResult(<<"script error">>))]
           ELSE IF ~validation.safe
             THEN sandbox' = [sandbox EXCEPT
                     !.pc = "returned", !.workspace = TRUE,
                     !.file = Some(scriptFile), !.command = executionCommand,
                     !.result = Some(RejectedResult(validation.reason))]
           ELSE sandbox' = [sandbox EXCEPT
                     !.pc = "running", !.workspace = TRUE,
                     !.file = Some(scriptFile), !.command = executionCommand,
                     !.spawned = TRUE]
    /\ UNCHANGED <<SchedulerVars, trigger>>

NextScript ==
    \/ ExecuteScript
    \/ SandboxTimeout
    \/ \E code \in {Null, Some(0), Some(1)} : ChildClose(code)

SpecScript == InitScript /\ [][NextScript]_vars

\* ------------------------------------------------------------------------
\* Properties
\* ------------------------------------------------------------------------

\* the armed primary timers (cron job, interval, timeout) of a task
LiveTimers(id) ==
    {h \in DOMAIN handles :
        handles[h].live /\ handles[h].kind # "retry" /\ handles[h].task.id = id}

InFlight(id) == \E i \in 1..Len(calls) : calls[i].id = id

\* C1: at every moment every task id has at most one live timer handle,
\* also when scheduleTask calls for the same id overlap at their awaits
C1_AtMostOneLiveTimer ==
    \A id \in TaskIds : Cardinality(LiveTimers(id)) <= 1

\* C8: once stopTask(id) has returned and scheduleTask(id) has not been
\* called since, no primary timer of the task fires (no execution of the
\* task is started by a timer)
C8_NoFireAfterStop ==
    [][\A id \in TaskIds :
          stopped[id] =>
            ~\E e \in (Len(execs) + 1)..Len(execs') :
                execs'[e].task.id = id /\ execs'[e].origin = "timer"]_vars

\* C9: when every scheduleTask / stopTask call for a task has returned, the
\* call made last decides the timer: after a stopTask no timer is armed,
\* after a scheduleTask only that call's timer is armed
C9_LastCallWins ==
    \A id \in TaskIds :
        ~InFlight(id) =>
            /\ lastOp[id] = "stop" => LiveTimers(id) = {}
            /\ lastOp[id] = "schedule" => \A h \in LiveTimers(id) : handles[h].last

\* the attempts of the retry chain started by timer fire c, the retries of
\* the chain still waiting on their timeout, and the rows of the chain
ChainExecs(c) == {e \in 1..Len(execs) : execs[e].chain = c}

ChainRetryTimers(c) ==
    {h \in DOMAIN handles :
        handles[h].live /\ handles[h].kind = "retry" /\ handles[h].chain = c}

ChainRows(c) == ChainExecs(c) \cap DOMAIN logs

TimerFires == {e \in 1..Len(execs) : execs[e].origin = "timer"}

\* every attempt of the chain has returned and no retry is pending
ChainSettled(c) ==
    /\ \A e \in ChainExecs(c) : execs[e].pc = "done"
    /\ ChainRetryTimers(c) = {}

Sealed(e) == e \in DOMAIN logs /\ logs[e].status \in {"success", "failed"}

\* C2: a timer fire of a task with maxRetries = N whose attempts all fail
\* leaves exactly N + 1 rows once its retry chain has come to rest
C2_RowsPerFailingFire ==
    \A c \in TimerFires :
        (ChainSettled(c) /\ \A e \in ChainRows(c) : logs[e].status = "failed")
            => Cardinality(ChainRows(c)) = execs[c].task.maxRetries + 1

\* C3: the attempts one timer fire causes, started or still pending on a
\* retry timeout, never exceed maxRetries + 1
C3_AttemptsBounded ==
    \A c \in TimerFires :
        Cardinality(ChainExecs(c)) + Cardinality(ChainRetryTimers(c))
            <= execs[c].task.maxRetries + 1

C3_Witness ==
    \E c \in TimerFires :
        /\ execs[c].task.maxRetries >= 1
        /\ ChainSettled(c)
        /\ \A e \in ChainExecs(c) : e \in DOMAIN logs /\ logs[e].status = "failed"

\* C4: a row is created with status running; a row whose status is success
\* or failed never changes again; the row of an executeTask that has
\* returned is sealed
C4_RowSealedOnce ==
    /\ [](\A e \in 1..Len(execs) : execs[e].pc = "done" => Sealed(e))
    /\ [][/\ \A e \in DOMAIN logs' \ DOMAIN logs : logs'[e].status = "running"
          /\ \A e \in DOMAIN logs :
                 /\ e \in DOMAIN logs'
                 /\ Sealed(e) => logs'[e].status = logs[e].status]_vars

C4_Witness ==
    /\ \E e \in 1..Len(execs) : execs[e].pc = "done" /\ Sealed(e) /\ logs[e].status = "failed"
    /\ \E e \in 1..Len(execs) : execs[e].pc = "done" /\ Sealed(e) /\ logs[e].status = "success"

\* the armed timers of a dispatch state
LiveOf(D) == {D.handles[h] : h \in {x \in DOMAIN D.handles : D.handles[x].live}}

\* C6: a second stopTask(id) in a row changes nothing after the first: no
\* handle for id in either map and nextExecutionTime null; a stopTask(id)
\* with nothing scheduled for id leaves every timer and both maps as they are
C6_StopIdempotent ==
    \A id \in TaskIds :
        LET s1 == StopTaskSeq(Table, id)
            s2 == StopTaskSeq(s1, id)
        IN  /\ s2 = s1
            /\ s1.scheduledTasks[id] = NoHandle
            /\ s1.runningTasks[id] = NoHandle
            /\ s1.dbNext[id] = Null
            /\ \A h \in {scheduledTasks[id], runningTasks[id]} \ {NoHandle} :
                   h \in DOMAIN s1.handles => ~s1.handles[h].live
            /\ (scheduledTasks[id] = NoHandle /\ runningTasks[id] = NoHandle)
                  => /\ LiveOf(s1) = LiveOf(Table)
                     /\ s1.scheduledTasks = scheduledTasks
                     /\ s1.runningTasks = runningTasks

C6_Witness ==
    \E id, other \in TaskIds :
        /\ \E h \in LiveTimers(id) : h \in {scheduledTasks[id], runningTasks[id]}
        /\ ~IsNull(dbNext[id])
        /\ scheduledTasks[other] = NoHandle /\ runningTasks[other] = NoHandle

\* C7: k stopTask(id) calls followed by scheduleTask(task) leave the dispatch
\* state, with the task's entry and its persisted nextExecutionTime, that
\* scheduleTask(task) alone leaves, for every k and every state before
C7_StopThenSchedule ==
    \A task \in budget.catalog :
        LET alone == ScheduleTaskSeq(Table, task, now)
        IN  \A k \in 0..MaxStops :
                ScheduleTaskSeq(StopTimes(Table, task.id, k), task, now) = alone

C7_Witness ==
    \E task \in budget.catalog :
        /\ \E h \in LiveTimers(task.id) :
              /\ h \in {scheduledTasks[task.id], runningTasks[task.id]}
              /\ handles[h].kind # ArmPlan(task, now).arm.kind
        /\ ~IsNull(dbNext[task.id])
        /\ ArmPlan(task, now).arm.kind # "none"

\* C5: the next fire time computed at time now is null or a timestamp
\* strictly greater than now, for every trigger kind and configuration
C5_NextFireStrictlyLater ==
    (trigger.done /\ DOMAIN trigger # {"done"})
        => IsNull(trigger.next) \/ Val(trigger.next) > trigger.now

\* the commands the validation has to turn down: empty, holding a
\* denylisted keyword, or holding ; & backtick or $(
MustReject(command) ==
    \/ \A i \in 1..Len(command) : command[i] \in WhiteSpace
    \/ \E i \in 1..Len(disallowedCommands) : Includes(command, disallowedCommands[i])
    \/ \E i \in 1..Len(command) : command[i] \in {";", "&", Backtick}
    \/ Includes(command, <<"$", "(">>)

\* C10: executeCommand turns down every empty command, every command with a
\* denylisted keyword and every command with ; & backtick or $( : it returns
\* success = false with the reason of the rejection, and neither creates the
\* workspace nor spawns a process
C10_RejectedBeforeSpawn ==
    (DOMAIN sandbox # {"pc"} /\ MustReject(sandbox.command) /\ sandbox.pc # "called")
        => /\ sandbox.pc = "returned"
           /\ ~sandbox.workspace
           /\ ~sandbox.spawned
           /\ ~Val(sandbox.result).success
           /\ Val(sandbox.result).stderr # <<>>
           /\ Val(sandbox.result).stderr = validateCommand(sandbox.command).reason

C10_Witness ==
    /\ DOMAIN sandbox # {"pc"}
    /\ sandbox.pc = "returned"
    /\ sandbox.command = <<"l", "s", " ", ";">>
    /\ ~Val(sandbox.result).success
    /\ Val(sandbox.result).stderr = <<"dangerous", ";">>

\* C11: a run whose process the timeout callback killed (the child ended by
\* the signal of childProcess.kill()) returns success = false with the
\* timeout note in its message
C11_TimeoutIsFailure ==
    (DOMAIN sandbox # {"pc"} /\ sandbox.pc = "returned" /\ sandbox.signalled)
        => /\ ~Val(sandbox.result).success
           /\ Val(sandbox.result).stderr = <<"timeout">>

\* ------------------------------------------------------------------------
\* The dispatch by task kind
\* ------------------------------------------------------------------------

\* the invocations of executeTask that are past the catch block's UPDATE
PastSeal(e) == execs[e].pc \in {"gettingLog", "updatingRetry", "done"}

\* C12: whatever the dispatch of a task does (HTTP failure, runner
\* rejection, non-zero exit, unsupported kind, invalid config), executeTask
\* does not reject: the thrown error is caught, and once the catch block's
\* UPDATE ran the invocation's row is failed and carries the error message
C12_ErrorsCaptured ==
    \A e \in 1..Len(execs) :
        /\ execs[e].pc # "rejected"
        /\ (PastSeal(e) /\ ~Val(execs[e].outcome).ok)
              => /\ logs[e].status = "failed"
                 /\ logs[e].error = Some(Val(execs[e].outcome).error)

C12_Witness ==
    \E e \in 1..Len(execs) :
        /\ execs[e].pc = "done"
        /\ execs[e].task.type = "command"
        /\ logs[e].status = "failed"
        /\ logs[e].error = Some(<<"command failed", "disallowed", <<"d", "d">>>>)
\* ------------------------------------------------------------------------
\* What scheduleTask returns
\* ------------------------------------------------------------------------

\* C13: while the scheduleTask call made last for a task has returned false
\* (and no scheduleTask was entered for the task since), the task has no
\* live timer
C13_FalseLeavesNoTimer ==
    \A id \in TaskIds :
        returned[id] = "false" => LiveTimers(id) = {}
\* the task ids all of whose tasks have an incomplete trigger configuration
IncompleteIds ==
    {id \in {t.id : t \in budget.catalog} :
        \A t \in budget.catalog : t.id = id => Incomplete(t)}

\* C14: a task whose trigger configuration is incomplete, or whose trigger
\* kind does not exist, never gets a timer or a map entry, its scheduleTask
\* returns (true or false) and its next_execution_time stays NULL
C14_IncompleteArmsNothing ==
    \A id \in IncompleteIds :
        /\ LiveTimers(id) = {}
        /\ scheduledTasks[id] = NoHandle /\ runningTasks[id] = NoHandle
        /\ dbNext[id] = Null
        /\ (lastOp[id] = "schedule" /\ ~InFlight(id)) => returned[id] \in {"true", "false"}

\* scheduleTask has returned for a task with an incomplete configuration,
\* and the other task is armed with its next execution time persisted
C14_Witness ==
    /\ "t1" \in IncompleteIds
    /\ returned["t1"] = "true"
    /\ LiveTimers("t2") # {}
    /\ dbNext["t2"] # Null
\* ------------------------------------------------------------------------
\* Preview executions
\* ------------------------------------------------------------------------

\* C15: a preview answers with what the dispatch by task kind gives for its
\* type and config, as in a real execution, and the step that answers it
\* changes no ExecutionLog row, no last or next execution time, no timer
\* (so no retry timer), no entry of the two maps, and starts no executeTask
C15_PreviewTouchesNothing ==
    /\ [](~IsNull(preview.last) /\ Val(preview.last).response.status # 400
            => LET p == Val(preview.last)
                   task == [MkTask("t1", "date", [date |-> StartTime + 60], 0)
                               EXCEPT !.type = p.request.type, !.config = p.request.config]
               IN  \E w \in Worlds(task) :
                      p.response = PreviewResponse(executeTaskLogic(task, w)))
    /\ [][preview'.count # preview.count
            => UNCHANGED <<logs, dbLast, dbNext, handles, scheduledTasks, runningTasks,
                           execs, calls>>]_vars

\* a preview has failed while the task's real execution has its row
C15_Witness ==
    /\ ~IsNull(preview.last)
    /\ Val(preview.last).response.status = 500
    /\ Val(preview.last).request.type = "command"
    /\ \E e \in DOMAIN logs : logs[e].status = "success"
\* ------------------------------------------------------------------------
\* Interval triggers
\* ------------------------------------------------------------------------

\* C16: while a task is scheduled on an interval trigger (its setInterval
\* timer is in runningTasks and no scheduleTask / stopTask for it is under
\* way), its persisted next_execution_time is the time of the timer's
\* upcoming fire: now + interval at scheduling, and again after every fire
C16_IntervalNextIsUpcoming ==
    \A id \in TaskIds :
        LET h == runningTasks[id]
        IN  (/\ h # NoHandle
             /\ handles[h].live
             /\ handles[h].kind = "interval"
             /\ ~InFlight(id))
                => /\ dbNext[id] = Some(handles[h].due)
                   /\ Val(dbNext[id]) >= now
\* ------------------------------------------------------------------------
\* Startup
\* ------------------------------------------------------------------------

\* C17: when initialize() has returned (and before the first request and
\* the first fire), every task whose row is active and whose stored trigger
\* configuration has a next fire time has a live timer, and no task whose
\* row is paused or completed has one
C17_InitializeArmsActive ==
    (lifecycle.phase = "running" /\ issued = 0 /\ execs = <<>>)
        => \A i \in 1..Len(dbTasks) :
              LET row == dbTasks[i]
              IN  /\ (row.status = "active" /\ ~IsNull(NextFireTime(StoredTask(row), now)))
                        => LiveTimers(row.id) # {}
                  /\ row.status # "active" => LiveTimers(row.id) = {}
\* ------------------------------------------------------------------------
\* Shutdown
\* ------------------------------------------------------------------------

\* C18: when shutdown() returns, both handle maps are empty and every cron
\* job, interval and timeout armed before is cancelled, so that none of
\* them fires afterwards; executions under way are left as they are
C18_ShutdownCancelsAll ==
    [][(lifecycle.phase = "running" /\ lifecycle'.phase = "shut down")
          => /\ \A id \in TaskIds :
                   scheduledTasks'[id] = NoHandle /\ runningTasks'[id] = NoHandle
             /\ \A id \in TaskIds : LiveTimers(id)' = {}
             /\ execs' = execs]_vars
\* ------------------------------------------------------------------------
\* Visual triggers
\* ------------------------------------------------------------------------

\* C19: for a visual trigger with visualType once and visualTime HH:mm, the
\* next fire time computed at now is today at HH:mm when that is strictly
\* after now, and tomorrow at HH:mm otherwise
C19_VisualOnce ==
    LET cfg == trigger.task.triggerConfig
        hm == ParseVisualTime(cfg.visualTime)
        today == (trigger.now \div 86400) * 86400 + hm.hours * 3600 + hm.minutes * 60
    IN  (/\ DOMAIN trigger # {"done"}
         /\ trigger.done
         /\ trigger.task.triggerType = "visual"
         /\ cfg.visualType = "once")
            => trigger.next = Some(IF today > trigger.now THEN today ELSE today + 86400)

\* 09:00 evaluated at 10:00 on 2024-01-01 gives 2024-01-02 09:00
C19_Witness ==
    /\ DOMAIN trigger # {"done"}
    /\ trigger.done
    /\ trigger.now = MakeTime(2024, 0, 1, 10, 0, 0)
    /\ trigger.task.triggerType = "visual"
    /\ trigger.task.triggerConfig = [visualType |-> "once", visualTime |-> Chars(9, 0)]
    /\ trigger.next = Some(MakeTime(2024, 0, 2, 9, 0, 0))
\* ------------------------------------------------------------------------
\* Rows and invocations
\* ------------------------------------------------------------------------

\* the invocations of executeTask whose INSERT has run
Inserted == {e \in 1..Len(execs) : execs[e].pc # "inserting"}

\* C20: the ExecutionLog rows are one per invocation of executeTask whose
\* INSERT has run: each such invocation has a row under its own execution
\* id, owned by its task, no two invocations share a row, and there is no
\* other row
C20_OneRowPerInvocation ==
    /\ Cardinality(DOMAIN logs) = Cardinality(Inserted)
    /\ \A e \in Inserted :
          /\ ExecutionId(e) \in DOMAIN logs
          /\ logs[ExecutionId(e)].task_id = execs[e].task.id
    /\ \A e1, e2 \in Inserted : e1 # e2 => ExecutionId(e1) # ExecutionId(e2)

\* two fires of one task, each with a row of its own
C20_Witness ==
    \E e1, e2 \in Inserted :
        /\ e1 # e2
        /\ execs[e1].task.id = execs[e2].task.id
        /\ execs[e1].pc = "done" /\ execs[e2].pc = "done"
        /\ {ExecutionId(e1), ExecutionId(e2)} \subseteq DOMAIN logs
\* ------------------------------------------------------------------------
\* Tasks side by side
\* ------------------------------------------------------------------------

\* what belongs to task id: its map entries, its armed timers (retry timers
\* included), its persisted next and last execution time, its rows
TaskView(id) ==
    [cron |-> scheduledTasks[id],
     timer |-> runningTasks[id],
     armed |-> {<<h, handles[h]>> : h \in {k \in DOMAIN handles :
                   handles[k].live /\ handles[k].task.id = id}},
     next |-> dbNext[id],
     last |-> dbLast[id],
     rows |-> {<<e, logs[e]>> : e \in {k \in DOMAIN logs : logs[k].task_id = id}}]

\* the scheduleTask / stopTask calls under way for task id, and its
\* executeTask invocations
CallsOf(id) ==
    {<<i, calls[i]>> : i \in {k \in 1..Len(calls) : calls[k].id = id}}

ExecsOf(id) ==
    {<<e, execs[e]>> : e \in {k \in 1..Len(execs) : execs[k].task.id = id}}

C22_ReportedByExitCode ==
    (DOMAIN sandbox # {"pc"} /\ sandbox.pc = "returned" /\ sandbox.spawned)
        => LET result == Val(sandbox.result)
               exitedWithZero == ~sandbox.signalled /\ result.code = 0
           IN  /\ result.success <=> exitedWithZero
               /\ ~result.success => result.code # 0
\* ------------------------------------------------------------------------
\* Calls one after the other
\* ------------------------------------------------------------------------

\* C23: when scheduleTask / stopTask calls do not overlap, a task id has at
\* most one armed timer, every armed timer is the one its map records, and
\* a step that arms a timer for a task starts with no timer armed for it
C23_OneRecordedHandle ==
    /\ [](\A id \in TaskIds :
             /\ Cardinality(LiveTimers(id)) <= 1
             /\ LiveTimers(id) \subseteq {scheduledTasks[id], runningTasks[id]})
    /\ [][\A id \in TaskIds :
             LiveTimers(id)' # LiveTimers(id) /\ LiveTimers(id)' # {}
                 => LiveTimers(id) = {}]_vars

\* the interval task was scheduled a second time, a minute after the first
\* (the clock got there by the first timer), and the call has returned
C23_Witness ==
    /\ calls = <<>>
    /\ issued = 2
    /\ lastOp["t1"] = "none"
    /\ dbNext["t2"] = Some(StartTime + 120)
    /\ \E h \in LiveTimers("t2") : runningTasks["t2"] = h
\* ------------------------------------------------------------------------
\* The persisted next execution time and the armed timer
\* ------------------------------------------------------------------------

\* C24: when scheduleTask returns true for a task none of whose timers has
\* fired yet, a non-null persisted nextExecutionTime comes with a timer
\* armed for the task
C24_NextImpliesArmed ==
    [][\A id \in TaskIds :
          (/\ returned[id] = "pending"
           /\ returned'[id] = "true"
           /\ \A e \in 1..Len(execs) : execs[e].task.id # id
           /\ dbNext'[id] # Null)
              => LiveTimers(id)' # {}]_vars
\* C25: when scheduleTask returns true with a timer armed for the task, none
\* of whose timers has fired yet, the persisted nextExecutionTime is
\* non-null and is the instant of the armed timer's first fire
C25_ArmedImpliesNext ==
    [][\A id \in TaskIds :
          (/\ returned[id] = "pending"
           /\ returned'[id] = "true"
           /\ \A e \in 1..Len(execs) : execs[e].task.id # id
           /\ LiveTimers(id)' # {})
              => /\ dbNext'[id] # Null
                 /\ \A h \in LiveTimers(id)' : handles'[h].due = Val(dbNext'[id])]_vars
\* ------------------------------------------------------------------------
\* Recurring tasks
\* ------------------------------------------------------------------------

\* C26: a recurring task that is never stopped has a timer armed again
\* after each fire: once the task has fired, a timer is armed for it again
C26_RearmedAfterFire ==
    (\E e \in 1..Len(execs) : execs[e].task.id = "t1") ~> (LiveTimers("t1") # {})
\* ------------------------------------------------------------------------
\* Retries and stopTask
\* ------------------------------------------------------------------------

PrimaryTimers ==
    {<<h, handles[h]>> : h \in {k \in DOMAIN handles :
                                  handles[k].live /\ handles[k].kind # "retry"}}

\* C28: a step of executeTask / handleRetry (an invocation going on after
\* an await, or a retry timeout starting a new invocation) leaves both maps,
\* every armed primary timer, every nextExecutionTime and every task row
\* with its status as they are, also when no retry is left
C28_RetriesBypassScheduling ==
    [][(\/ Len(execs') = Len(execs) /\ execs' # execs
        \/ Len(execs') > Len(execs) /\ execs'[Len(execs')].origin = "retry")
          => /\ scheduledTasks' = scheduledTasks
             /\ runningTasks' = runningTasks
             /\ PrimaryTimers' = PrimaryTimers
             /\ dbNext' = dbNext
             /\ dbTasks' = dbTasks]_vars

\* a failed execution of a task with maxRetries >= 1 went through
\* handleRetry, which armed no retry, and the task's primary timer is armed
C28_Witness ==
    \E e \in 1..Len(execs) :
        /\ execs[e].pc = "done"
        /\ logs[e].status = "failed"
        /\ execs[e].task.maxRetries >= 1
        /\ ChainRetryTimers(execs[e].chain) = {}
        /\ \E h \in LiveTimers(execs[e].task.id) : runningTasks[execs[e].task.id] = h
        /\ dbNext[execs[e].task.id] # Null
\* ------------------------------------------------------------------------
\* Date triggers
\* ------------------------------------------------------------------------

\* C29: the timer armed for a date task is due at the configured instant,
\* which is then the persisted nextExecutionTime, and a date task executes
\* at its configured instant only: never when that instant was not after
\* the time of the scheduleTask call
C29_DateTrigger ==
    /\ \A h \in DOMAIN handles :
          (handles[h].live /\ handles[h].task.triggerType = "date")
              => handles[h].due = handles[h].task.triggerConfig.date
    /\ \A id \in TaskIds :
          (~InFlight(id) /\ LiveTimers(id) # {} /\ lastOp[id] = "schedule")
              => \A h \in LiveTimers(id) :
                     dbNext[id] = Some(handles[h].task.triggerConfig.date)
    /\ \A e \in 1..Len(execs) :
          execs[e].task.triggerType = "date"
              => execs[e].startedAt = execs[e].task.triggerConfig.date
\* ------------------------------------------------------------------------
\* Visual week triggers
\* ------------------------------------------------------------------------

\* C30: for a visual week trigger with weekdays and a time HH:mm, the next
\* fire time computed at now is HH:mm on the first configured weekday after
\* today's, and on the first configured weekday of next week when every
\* configured weekday is today's or earlier in the week
C30_VisualWeekWraps ==
    LET cfg == trigger.task.triggerConfig
        hm == ParseVisualTime(cfg.visualTime)
        today == Civil(trigger.now).day
        midnight == (trigger.now \div 86400) * 86400
        later == {d \in cfg.visualDays : d > today}
        ahead == IF later # {} THEN MinOf(later) - today
                 ELSE 7 - today + MinOf(cfg.visualDays)
    IN  (/\ DOMAIN trigger # {"done"}
         /\ trigger.done
         /\ trigger.task.triggerType = "visual"
         /\ cfg.visualType = "week"
         /\ cfg.visualDays # {})
            => trigger.next = Some(midnight + ahead * 86400 + hm.hours * 3600 + hm.minutes * 60)
\* ------------------------------------------------------------------------
\* Visual month triggers
\* ------------------------------------------------------------------------

\* C31: for a visual month trigger with day-of-month D (a day every month
\* has) and a time HH:mm, the next fire time computed at now is D at HH:mm
\* in the current month when that instant is after now, and D at HH:mm in
\* the next month otherwise
C31_VisualMonth ==
    LET cfg == trigger.task.triggerConfig
        hm == ParseVisualTime(cfg.visualTime)
        c == Civil(trigger.now)
        thisMonth == MakeTime(c.year, c.month, cfg.visualDate, hm.hours, hm.minutes, 0)
        nextMonth == MakeTime(c.year, c.month + 1, cfg.visualDate, hm.hours, hm.minutes, 0)
    IN  (/\ DOMAIN trigger # {"done"}
         /\ trigger.done
         /\ trigger.task.triggerType = "visual"
         /\ cfg.visualType = "month"
         /\ cfg.visualDate <= 28)
            => trigger.next = Some(IF thisMonth > trigger.now THEN thisMonth ELSE nextMonth)
\* ------------------------------------------------------------------------
\* Lunar and countdown triggers
\* ------------------------------------------------------------------------

\* the executions of a task object
ExecsOfTask(task) == {e \in 1..Len(execs) : execs[e].task = task}

\* C32: a lunar task executes on its configured month and day only; with
\* lunarRepeat its executions are a year apart (no two in one year), and
\* without lunarRepeat it executes at most once per scheduleTask call
C32_LunarYearly ==
    \A e \in 1..Len(execs) :
        LET task == execs[e].task
            cfg == task.triggerConfig
            c == Civil(execs[e].startedAt)
        IN  task.triggerType = "lunar"
              => /\ c.month = cfg.lunarMonth - 1
                 /\ c.date = cfg.lunarDay
                 /\ \A f \in ExecsOfTask(task) \ {e} :
                        Civil(execs[f].startedAt).year # c.year
                 /\ ~cfg.lunarRepeat => Cardinality(ExecsOfTask(task)) <= issued
\* countdownStartTime + hours * 3600 + minutes * 60 + seconds, a component
\* that is missing counting as 0
CountdownInstant(cfg) ==
    cfg.countdownStartTime
        + (IF "countdownHours" \in DOMAIN cfg THEN cfg.countdownHours * 3600 ELSE 0)
        + (IF "countdownMinutes" \in DOMAIN cfg THEN cfg.countdownMinutes * 60 ELSE 0)
        + (IF "countdownSeconds" \in DOMAIN cfg THEN cfg.countdownSeconds ELSE 0)

\* C33: the timer armed for a countdown task is due at the countdown's
\* instant, which is then the persisted nextExecutionTime; a countdown task
\* executes at that instant only (never when it was not after the time of
\* the scheduleTask call), and at most once per scheduleTask call
C33_Countdown ==
    /\ \A h \in DOMAIN handles :
          (handles[h].live /\ handles[h].task.triggerType = "countdown")
              => /\ handles[h].due = CountdownInstant(handles[h].task.triggerConfig)
                 /\ ~InFlight(handles[h].task.id)
                       => dbNext[handles[h].task.id] = Some(handles[h].due)
    /\ \A e \in 1..Len(execs) :
          execs[e].task.triggerType = "countdown"
              => /\ execs[e].startedAt = CountdownInstant(execs[e].task.triggerConfig)
                 /\ Cardinality(ExecsOfTask(execs[e].task)) <= issued
\* ------------------------------------------------------------------------
\* The seal and the dispatch outcome
\* ------------------------------------------------------------------------

\* what the dispatch of an executed task does in the cases of failure: an
\* HTTP error status, a command the runner rejects, a command or script
\* that exits non-zero, a script the runner rejects, a kind other than
\* http / command / script
DispatchFails ==
    \A task \in {execs[e].task : e \in 1..Len(execs)} : \A w \in Worlds(task) :
        LET outcome == executeTaskLogic(task, w)
            cfg == task.config
        IN  /\ (task.type = "http" /\ w.response = "error status") => ~outcome.ok
            /\ (task.type = "command" /\ Has(cfg, "command")
                   /\ (~validateCommand(cfg.command).safe \/ w.fate.code = Some(1)))
                  => ~outcome.ok
            /\ (task.type = "script" /\ ~w.scriptResult.success) => ~outcome.ok
            /\ task.type \notin {"http", "command", "script"}
                  => /\ ~outcome.ok
                     /\ outcome.error = <<"unsupported task type", task.type>>

IsScriptRun == "scriptContent" \in DOMAIN sandbox

\* the scripts executeScript has to turn down: a language that is, in lower
\* case, none of the three; an empty or too long source; a source one of
\* the denylisted patterns matches
ScriptMustReject(scriptContent, language) ==
    \/ ToLowerCase(language) \notin
          {<<"j", "a", "v", "a", "s", "c", "r", "i", "p", "t">>,
           <<"p", "y", "t", "h", "o", "n">>, <<"b", "a", "s", "h">>}
    \/ scriptContent = <<>>
    \/ Len(scriptContent) > 10000
    \/ \E p \in 1..Len(dangerousPatterns) : RegExpTest(dangerousPatterns[p], scriptContent)

\* C35: executeScript turns down a script of an unsupported language (the
\* comparison ignores case), an empty or over-long script and a script a
\* denylisted pattern matches before it makes the workspace, writes a file
\* or spawns a process
C35_ScriptRejectedBeforeWrite ==
    (IsScriptRun /\ sandbox.pc # "scriptCalled"
        /\ ScriptMustReject(sandbox.scriptContent, sandbox.language))
        => /\ sandbox.pc = "returned"
           /\ ~sandbox.workspace
           /\ IsNull(sandbox.file)
           /\ ~sandbox.spawned
           /\ ~Val(sandbox.result).success

C35_Witness ==
    /\ IsScriptRun
    /\ sandbox.pc = "returned"
    /\ sandbox.scriptContent = <<"e", "v", "a", "l", "(">>
    /\ sandbox.language = <<"J", "a", "v", "a", "S", "c", "r", "i", "p", "t">>
    /\ IsNull(sandbox.file)
    /\ Val(sandbox.result).stderr = <<"dangerous pattern">>

\* C36: a script of one of the three languages that passes the checks of
\* executeScript is written into the workspace of its task, the command
\* built for it passes validateCommand, and the interpreter is spawned
C36_AcceptedScriptRuns ==
    (IsScriptRun /\ sandbox.pc # "scriptCalled"
        /\ ~ScriptMustReject(sandbox.scriptContent, sandbox.language))
        => /\ ~IsNull(sandbox.file)
           /\ validateCommand(sandbox.command).safe
           /\ sandbox.spawned

\* the text of s before its first space
LeadingToken(s) ==
    IF \E i \in 1..Len(s) : s[i] = " "
      THEN SubSeq(s, 1, (CHOOSE i \in 1..Len(s) :
                            s[i] = " " /\ \A j \in 1..(i - 1) : s[j] # " ") - 1)
      ELSE s

\* C37: validateCommand accepts a command only if its leading token, in
\* lower case, is in the allowlist; a command with another leading token is
\* turned down and nothing is spawned for it
C37_LeadingTokenAllowlisted ==
    (DOMAIN sandbox # {"pc"} /\ ~IsScriptRun /\ sandbox.pc # "called")
        => LET leading == ToLowerCase(LeadingToken(Trim(sandbox.command)))
           IN  /\ validateCommand(sandbox.command).safe => leading \in allowedCommands
               /\ sandbox.spawned => leading \in allowedCommands
               /\ leading \notin allowedCommands
                    => /\ sandbox.pc = "returned"
                       /\ ~sandbox.spawned
                       /\ ~sandbox.workspace
                       /\ ~Val(sandbox.result).success

C37_Witness ==
    /\ DOMAIN sandbox # {"pc"}
    /\ ~IsScriptRun
    /\ sandbox.pc = "returned"
    /\ sandbox.command = <<"x">>
    /\ ~sandbox.spawned
    /\ Val(sandbox.result).stderr = <<"not allowed", <<"x">>>>

\* ---------------------------------------------------------------------
\* the dispatch table after a one-shot fire (C38)

\* the tasks whose timer fires once: date, countdown, visual once, lunar
\* without lunarRepeat
OneShot(task) ==
    \/ task.triggerType \in {"date", "countdown"}
    \/ task.triggerType \in {"visual", "lunar"} /\ ~Reschedules(task)

\* C38: once the timer of a one-shot task has fired and the execution it
\* started has returned, with no scheduleTask / stopTask call of the task
\* under way and no timer armed for it, the task has no entry in either map
\* and its persisted nextExecutionTime does not name the instant of the fire
\* or an earlier one
C38_OneShotLeavesTable ==
    \A e \in 1..Len(execs) :
        LET id == execs[e].task.id
        IN  (/\ execs[e].origin = "timer"
             /\ execs[e].pc = "done"
             /\ OneShot(execs[e].task)
             /\ ~InFlight(id)
             /\ LiveTimers(id) = {})
                => /\ scheduledTasks[id] = NoHandle
                   /\ runningTasks[id] = NoHandle
                   /\ dbNext[id] = Null \/ Val(dbNext[id]) > execs[e].startedAt

\* ---------------------------------------------------------------------
\* the two handle maps (C39)

\* C39: no task id has an entry in scheduledTasks and an entry in
\* runningTasks at the same time
C39_OneMapPerTask ==
    \A id \in TaskIds : scheduledTasks[id] = NoHandle \/ runningTasks[id] = NoHandle

\* ---------------------------------------------------------------------
\* the dispatch table after PUT, DELETE and POST /batch (C40)

\* the row of task id after the step, or Null
RowAfter(id) ==
    IF RowIndex(dbTasks', id) = 0 THEN Null ELSE Some(dbTasks'[RowIndex(dbTasks', id)])

\* C40: when a PUT, a DELETE or a batch operation returns, every task it
\* named that is deleted or whose stored status is paused or completed has
\* no armed primary timer, and every task it named whose stored status is
\* active and whose stored trigger configuration has a next fire time, and
\* which has not fired since, has one
C40_TableFollowsStatus ==
    [][(~IsNull(lifecycle.request) /\ IsNull(lifecycle'.request))
          => \A id \in Val(lifecycle.request).touched :
                LET row == RowAfter(id)
                IN  /\ (IsNull(row) \/ Val(row).status # "active")
                          => LiveTimers(id)' = {}
                    /\ (/\ ~IsNull(row)
                        /\ Val(row).status = "active"
                        /\ ~IsNull(NextFireTime(StoredTask(Val(row)), now))
                        /\ \A e \in 1..Len(execs) : execs[e].task.id # id)
                          => LiveTimers(id)' # {}]_vars


====
